---------------------------- MODULE Spec2Model ----------------------------
(***************************************************************************)
(* A model of the lc0 training client (LeelaChessZero/lczero-client):      *)
(*   - the asset cache of lc0_main.go (getNetwork, checkValidNetwork,      *)
(*     removeAllExcept, acquireLock) and client.DownloadNetwork, run by    *)
(*     several client processes that share one cache directory;            *)
(*   - one client process: the main loop and nextGame, the engine session  *)
(*     (cmdWrapper.launch and its reader goroutine), train with its upload *)
(*     workers and its poller, playMatch with its uploader and forwarders. *)
(* Each part has its own specification; the variables of the other part    *)
(* stay at their initial values.                                           *)
(***************************************************************************)
EXTENDS Integers, Sequences, FiniteSets, TLC

(***************************************************************************)
(*                       PART 1: THE ASSET CACHE                           *)
(***************************************************************************)

\* Client processes that share the directory "client-cache".
Procs == {"p1", "p2"}

\* Network identifiers (hex SHA-256 digests of the gunzipped weights).
Shas == {"a", "b"}

\* Time is counted in units of four hours, so that the default keep time
\* "4h" is one unit.  A file's age is time.Since(ModTime); ages above MaxAge
\* are not told apart.
MaxAge == 2
FourHours == 1

\* const inf = "inf": the keep time that disables eviction.
Inf == "inf"

\* The keep times getNetwork is called with: inf (match networks, --keep)
\* and the default "4h".
KeepTimes == {Inf, "4h"}

\* timeLimit, _ := time.ParseDuration(keepTime), in units of four hours
\* (a string ParseDuration rejects gives 0 as well).
ParseDuration(k) == IF k = "4h" THEN FourHours ELSE 0

NoFile == [none |-> TRUE]

\* The content of a network file, as far as checkValidNetwork looks at it:
\* gz: gzip.NewReader accepts the header; full: ioutil.ReadAll ends without
\* an error; digest: the hex SHA-256 of the bytes ReadAll returned.
Content == [gz : BOOLEAN, full : BOOLEAN, digest : Shas \cup {"other"}]

ValidContent(s) == [gz |-> TRUE, full |-> TRUE, digest |-> s]

\* What the server may send for sha s: the network, another payload, and
\* a gzip stream of the right bytes whose trailer is damaged (ReadAll
\* returns the bytes and an error).
ServerContents(s) ==
    { ValidContent(s),
      [gz |-> TRUE, full |-> TRUE, digest |-> "other"],
      [gz |-> TRUE, full |-> FALSE, digest |-> s] }

\* A body cut short by a failed io.Copy.
PartialContent == [gz |-> TRUE, full |-> FALSE, digest |-> "other"]

\* The entries of the cache directory: the network file <sha>, the lock
\* file <sha>.lck, and the temporary file <sha>_tmpNNN of a download (one
\* per downloading process).
NetName(s) == [k |-> "net", id |-> s]
LckName(s) == [k |-> "lck", id |-> s]
TmpName(p) == [k |-> "tmp", id |-> p]

\* The directory listing in ioutil.ReadDir's order (sorted by file name).
NameOrder ==
    << NetName("a"), LckName("a"), NetName("b"), LckName("b"),
       TmpName("p1"), TmpName("p2") >>

Names == { NameOrder[i] : i \in 1..Len(NameOrder) }

VARIABLES
    dir,    \* the cache directory: name -> NoFile or [age, body]
    gn      \* per process: the getNetwork call in progress and its result

cacheVars == <<dir, gn>>

Present(n) == dir[n] # NoFile

Older(a) == IF a < MaxAge THEN a + 1 ELSE MaxAge

\* A process outside getNetwork.  pc is the place in getNetwork; phase tells
\* the checkValidNetwork call before the lock (1) from the one after the
\* download (2); files is what is left of removeAllExcept's listing; read is
\* the content checkValidNetwork read last; ret is the value the deferred
\* Unlock is followed by; res is the result of the call that returned last.
\* evicted (the entries removeAllExcept removed in this call) and sawDl (a
\* call for the same sha that overlaps this one has called DownloadNetwork)
\* are history fields: no step reads them.
IdleCall ==
    [ pc |-> "idle", sha |-> "a", keepTime |-> Inf, phase |-> 1,
      files |-> << >>, read |-> NoFile, ret |-> "none", copyErr |-> FALSE,
      res |-> "none", evicted |-> {}, sawDl |-> FALSE ]

\* getNetwork returns r: its locals are gone.  Of a successful call the
\* content it read last, and the return statement it left by (phase), stay.
Returned(g, r) ==
    [IdleCall EXCEPT !.sha = g.sha, !.res = r,
                     !.read = IF r = "ok" THEN g.read ELSE NoFile,
                     !.phase = IF r = "ok" THEN g.phase ELSE 1]

\* p is between DownloadNetwork's call and getNetwork's return; these are
\* also the places where p holds the lock (TryLock succeeded, the deferred
\* Unlock has not run).
InDownload(p) ==
    \/ gn[p].pc \in {"get", "rename", "unlock"}
    \/ gn[p].pc # "idle" /\ gn[p].phase = 2

HoldsLock(p) == InDownload(p)

\* The first checkValidNetwork of p's call found no valid file.
Missed(p) == gn[p].pc = "lock" \/ InDownload(p)

CacheInit ==
    /\ dir = [n \in Names |-> NoFile]
    /\ gn = [p \in Procs |-> IdleCall]

\* ioutil.ReadDir: the entries there are, in order.
ListDir == SelectSeq(NameOrder, Present)

\* getNetwork's entry: os.MkdirAll and, unless keepTime is inf,
\* removeAllExcept up to its ioutil.ReadDir, which lists the entries with
\* their ModTime.

GetNetworkCall(p, s, k) ==
    /\ gn[p].pc = "idle"
    /\ LET l == IF k = Inf THEN << >>
                ELSE [i \in 1..Len(ListDir) |->
                        [name |-> ListDir[i], age |-> dir[ListDir[i]].age]]
       IN gn' = [gn EXCEPT ![p] =
                [IdleCall EXCEPT
                    !.sha = s, !.keepTime = k, !.files = l,
                    !.pc = IF l # << >> THEN "evict" ELSE "stat",
                    !.sawDl = \E q \in Procs \ {p} :
                                 gn[q].sha = s /\ InDownload(q)]]
    /\ UNCHANGED dir

\* removeAllExcept without its "file.Name() == sha" test.
KeepsFileByAgeOnly(f, s, limit) == f.age < limit

\* The loop body's decision for one listed file:
\*   if file.Name() == sha { continue }
\*   if time.Since(file.ModTime()) < timeLimit { continue }
KeepsFile(f, s, limit) == f.name = NetName(s) \/ f.age < limit

\* One iteration of removeAllExcept's loop; os.RemoveAll removes whatever is
\* at the path now (and succeeds when nothing is).
RemoveAllExceptStep(p) ==
    /\ gn[p].pc = "evict"
    /\ LET f == Head(gn[p].files)
           rest == Tail(gn[p].files)
           keeps == KeepsFile(f, gn[p].sha, ParseDuration(gn[p].keepTime))
       IN /\ dir' = IF keeps THEN dir ELSE [dir EXCEPT ![f.name] = NoFile]
          /\ gn' = [gn EXCEPT
                ![p].files = rest,
                ![p].evicted = IF keeps THEN @ ELSE @ \cup {f},
                ![p].pc = IF rest = << >> THEN "stat" ELSE "evict"]

\* checkValidNetwork's os.Stat(path).  Without the file it returns the Stat
\* error: the first call then goes on to the lock, the call after the
\* download returns it.  removeAllExcept is over: keepTime is read no more.
Stat(p) ==
    /\ gn[p].pc = "stat"
    /\ gn' = [gn EXCEPT
          ![p].pc = IF Present(NetName(gn[p].sha)) THEN "open"
                    ELSE IF gn[p].phase = 1 THEN "lock" ELSE "unlock",
          ![p].ret = IF Present(NetName(gn[p].sha)) THEN @ ELSE "err",
          ![p].keepTime = Inf,
          ![p].evicted = {}]
    /\ UNCHANGED dir

\* checkValidNetwork with ReadAll's error dropped (bytes, _ = ReadAll).
CheckErrIgnoringReadAll(c, s) ==
    IF c = NoFile THEN TRUE
    ELSE IF ~c.gz THEN TRUE
    ELSE s # c.digest

\* The err checkValidNetwork is left with after reading content c:
\*   reader, err := gzip.NewReader(file)
\*   if err == nil { bytes, err = ioutil.ReadAll(reader)
\*                   if sha != got { err = errors.New(text) } }
\* Opening a file that is gone leaves a nil *os.File, which gzip.NewReader
\* fails to read.
CheckErr(c, s) ==
    IF c = NoFile THEN TRUE
    ELSE IF ~c.gz THEN TRUE
    ELSE IF s # c.digest THEN TRUE
    ELSE ~c.full

\* os.Open and the read of the whole file.
OpenRead(p) ==
    /\ gn[p].pc = "open"
    /\ LET c == IF Present(NetName(gn[p].sha))
                THEN dir[NetName(gn[p].sha)].body ELSE NoFile
           g == [gn[p] EXCEPT !.read = c]
       IN IF CheckErr(c, gn[p].sha)
          THEN gn' = [gn EXCEPT ![p] = [g EXCEPT !.pc = "remove"]]
          ELSE IF gn[p].phase = 1
          THEN \* "There is already a valid network. Use it."
               gn' = [gn EXCEPT ![p] = Returned(g, "ok")]
          ELSE gn' = [gn EXCEPT ![p] = [g EXCEPT !.pc = "unlock", !.ret = "ok"]]
    /\ UNCHANGED dir

\* A checkValidNetwork that reports the invalid file and leaves it there.
RemoveInvalidSkipped(p) ==
    /\ gn[p].pc = "remove"
    /\ dir' = dir
    /\ gn' = [gn EXCEPT
          ![p].pc = IF gn[p].phase = 1 THEN "lock" ELSE "unlock",
          ![p].read = NoFile,
          ![p].ret = "err"]

\* "Deleting invalid network...": os.Remove(path); return path, err.
RemoveInvalid(p) ==
    /\ gn[p].pc = "remove"
    /\ dir' = [dir EXCEPT ![NetName(gn[p].sha)] = NoFile]
    /\ gn' = [gn EXCEPT
          ![p].pc = IF gn[p].phase = 1 THEN "lock" ELSE "unlock",
          ![p].read = NoFile,
          ![p].ret = "err"]

\* lockfile.TryLock (github.com/nightlyone/lockfile) on <sha>.lck: the lock
\* file is created by linking a file that holds the caller's pid; when the
\* name exists and its owner is another live process the result is ErrBusy,
\* and a lock file of the caller's own is removed and taken again.
TryLockBusy(p, s) == Present(LckName(s)) /\ dir[LckName(s)].body # p

\* acquireLock and getNetwork's handling of its error.
AcquireLock(p) ==
    /\ gn[p].pc = "lock"
    /\ IF TryLockBusy(p, gn[p].sha)
       THEN \* "Download initiated by other client": return "", err
            /\ gn' = [gn EXCEPT ![p] = Returned(gn[p], "busy")]
            /\ UNCHANGED dir
       ELSE /\ dir' = [dir EXCEPT ![LckName(gn[p].sha)] =
                                    [age |-> 0, body |-> p]]
            /\ gn' = [q \in Procs |->
                        IF q = p THEN [gn[p] EXCEPT !.pc = "get"]
                        ELSE IF gn[q].pc # "idle" /\ gn[q].sha = gn[p].sha
                        THEN [gn[q] EXCEPT !.sawDl = TRUE]
                        ELSE gn[q]]

\* client.DownloadNetwork fails before it has a temporary file:
\* httpClient.Get, the status check or ioutil.TempFile returns an error.
DownloadGet(p) ==
    /\ gn[p].pc = "get"
    /\ gn' = [gn EXCEPT ![p].pc = "unlock", ![p].ret = "err"]
    /\ UNCHANGED dir

\* client.DownloadNetwork up to io.Copy(out, r.Body): the temporary file
\* holds the body c the server sent, or a part of it when the copy failed.
DownloadCopy(p, c, ok) ==
    /\ gn[p].pc = "get"
    /\ dir' = [dir EXCEPT ![TmpName(p)] =
                        [age |-> 0, body |-> IF ok THEN c ELSE PartialContent]]
    /\ gn' = [gn EXCEPT ![p].pc = "rename", ![p].copyErr = ~ok]

\* DownloadNetwork renaming the temporary file whatever io.Copy returned.
DownloadRenameUnchecked(p) ==
    /\ gn[p].pc = "rename"
    /\ LET renamed == Present(TmpName(p))
       IN /\ dir' = [dir EXCEPT
                 ![NetName(gn[p].sha)] = IF renamed THEN dir[TmpName(p)] ELSE @,
                 ![TmpName(p)] = NoFile]
          /\ gn' = [gn EXCEPT
                 ![p].pc = IF renamed THEN "stat" ELSE "unlock",
                 ![p].phase = IF renamed THEN 2 ELSE @,
                 ![p].copyErr = FALSE,
                 ![p].ret = IF renamed THEN @ ELSE "err"]

\* if err == nil { err = os.Rename(out.Name(), networkPath) }
\* os.Remove(out.Name()); return err
DownloadRename(p) ==
    /\ gn[p].pc = "rename"
    /\ LET renamed == ~gn[p].copyErr /\ Present(TmpName(p))
       IN /\ dir' = [dir EXCEPT
                 ![NetName(gn[p].sha)] = IF renamed THEN dir[TmpName(p)] ELSE @,
                 ![TmpName(p)] = NoFile]
          /\ gn' = [gn EXCEPT
                 ![p].pc = IF renamed THEN "stat" ELSE "unlock",
                 ![p].phase = IF renamed THEN 2 ELSE @,
                 ![p].copyErr = FALSE,
                 ![p].ret = IF renamed THEN @ ELSE "err"]

\* getNetwork's return without the deferred lock.Unlock().
UnlockSkipped(p) ==
    /\ gn[p].pc = "unlock"
    /\ gn' = [gn EXCEPT ![p] = Returned(gn[p], gn[p].ret)]
    /\ UNCHANGED dir

\* The deferred lock.Unlock() and getNetwork's return.  Unlock removes the
\* lock file only when it still names the caller as its owner.
Unlock(p) ==
    /\ gn[p].pc = "unlock"
    /\ dir' = IF Present(LckName(gn[p].sha)) /\ dir[LckName(gn[p].sha)].body = p
              THEN [dir EXCEPT ![LckName(gn[p].sha)] = NoFile]
              ELSE dir
    /\ gn' = [gn EXCEPT ![p] = Returned(gn[p], gn[p].ret)]

\* Four hours pass: every file, and every listed ModTime, is a unit older.
Tick ==
    /\ \E n \in Names : Present(n) /\ dir[n].age < MaxAge
    /\ dir' = [n \in Names |->
                 IF Present(n) THEN [dir[n] EXCEPT !.age = Older(@)] ELSE NoFile]
    /\ gn' = [p \in Procs |->
                 [gn[p] EXCEPT !.files =
                     [i \in 1..Len(gn[p].files) |->
                         [gn[p].files[i] EXCEPT !.age = Older(@)]]]]

(***************************************************************************)
(*                     Properties of the asset cache                       *)
(***************************************************************************)

\* Content c gunzips without error to bytes whose SHA-256 is s.
Verified(c, s) == c # NoFile /\ c.gz /\ c.full /\ c.digest = s

\* C1: whenever getNetwork has returned a path without error, by the
\* cache-hit return or by the return after the download, the content that
\* call read from the path gunzips to bytes whose digest is the identifier.
C1_SuccessIsVerified ==
    \A p \in Procs : gn[p].res = "ok" => Verified(gn[p].read, gn[p].sha)

\* One process has returned a cache hit and another has returned the file
\* it downloaded.
C1_Witness ==
    \E p, q \in Procs :
        /\ gn[p].pc = "idle" /\ gn[p].res = "ok" /\ gn[p].phase = 1
        /\ gn[q].pc = "idle" /\ gn[q].res = "ok" /\ gn[q].phase = 2

\* C2: of two getNetwork calls for the same identifier that overlap in time
\* and both found it not cached, at most one calls DownloadNetwork.
C2_AtMostOneDownloads ==
    \A p \in Procs : ~(InDownload(p) /\ gn[p].sawDl)

\* C3: no two processes hold the lock file of the same identifier at once
\* (both between a successful TryLock and the matching Unlock).
C3_LockIsExclusive ==
    \A p, q \in Procs :
        (p # q /\ HoldsLock(p) /\ HoldsLock(q)) => gn[p].sha # gn[q].sha

\* C4 as stated: under policy "4h" removeAllExcept removes an entry only if
\* its modification time is older than four hours, and never the entry of
\* the identifier being resolved.
C4_RemovesOnlyOlderThanLimit ==
    \A p \in Procs :
        gn[p].keepTime = "4h" =>
            \A f \in gn[p].evicted :
                f.name # NetName(gn[p].sha) /\ f.age > FourHours

\* C4 as amended: under policy "4h" removeAllExcept removes an entry only if
\* the modification time it listed is at least four hours old (every listed
\* entry younger than that is left alone), and never the entry of the
\* identifier being resolved.
C4_RemovesOnlyNotYoungerThanLimit ==
    \A p \in Procs :
        gn[p].keepTime = "4h" =>
            \A f \in gn[p].evicted :
                f.name # NetName(gn[p].sha) /\ ~(f.age < FourHours)

\* A "4h" eviction is over: it removed an entry, and left both the old file
\* of the identifier being resolved and a young entry in place.
C4_Witness ==
    \E p \in Procs :
        /\ gn[p].pc = "stat" /\ gn[p].keepTime = "4h"
        /\ gn[p].evicted # {}
        /\ Present(NetName(gn[p].sha))
        /\ dir[NetName(gn[p].sha)].age > FourHours
        /\ \E n \in Names : Present(n) /\ dir[n].age < FourHours

(***************************************************************************)
(*                      PART 2: ONE CLIENT PROCESS                         *)
(***************************************************************************)

\* The engine sessions of one run of the client: session k belongs to the
\* k-th call of train or playMatch.  The goroutines of a session live on
\* after the call has returned, so the sessions are kept side by side.
MaxTasks == 2
Sessions == 1..MaxTasks

\* The lines the reader goroutines scan in one run of the client.
MaxLines == 3

\* The failed server queries in a row that a poller or a match uploader is
\* followed through (the code gives up at ErrLimit).
MaxErrs == 1
ErrLimit == 10

\* The limits of the runs that are followed up to ErrLimit failed queries
\* in a row, which a match uploader makes one per game.
LongLines == ErrLimit + 1
ShortRun == [lines |-> MaxLines, errs |-> MaxErrs]
LongRun == [lines |-> LongLines, errs |-> ErrLimit]

\* uploadGame gives up when retryCount exceeds RetryLimit.
RetryLimit == 3

\* The backends "lc0 --help" may list.
HelpOutputs ==
    { {"cudnn-fp16", "cudnn", "blas"}, {"cudnn-fp16", "blas"}, {"opencl"} }

\* The --backend-opts flag: unset, or the example of its usage text.
BackOpts == {"", "cudnn(gpu=1)"}

\* checkLc0: the capability flags as functions of the help output.  The
\* text "cudnn" occurs once for each of the names cudnn and cudnn-fp16.
HasBlas(h) == "blas" \in h
HasDx(h) == "dx12" \in h
HasCudnnFp16(h) == "cudnn-fp16" \in h
CudnnCount(h) == Cardinality(h \cap {"cudnn", "cudnn-fp16"})
HasCudnn(h) ==
    CudnnCount(h) > 0 /\ ~(HasCudnnFp16(h) /\ CudnnCount(h) = 1)
HasOpenCL(h) == "opencl" \in h

\* launch's choice of the --backend-opts argument, with the probed flag in
\* place of the current one.
BackendArgFromProbe(bo, fp16, h) ==
    IF bo # "" THEN bo
    ELSE IF HasCudnnFp16(h) THEN "backend=cudnn-fp16"
    ELSE IF HasCudnn(h) THEN "backend=cudnn"
    ELSE IF HasDx(h) THEN "check(dx12)"
    ELSE IF HasOpenCL(h) THEN "backend=opencl"
    ELSE ""

\* launch's choice of the --backend-opts argument ("" when none is passed)
\* from *backopts, the current hasCudnnFp16 and the other flags.
BackendArg(bo, fp16, h) ==
    IF bo # "" THEN bo
    ELSE IF fp16 THEN "backend=cudnn-fp16"
    ELSE IF HasCudnn(h) THEN "backend=cudnn"
    ELSE IF HasDx(h) THEN "check(dx12)"
    ELSE IF HasOpenCL(h) THEN "backend=opencl"
    ELSE ""

\* The --parallelism flag: its default, and the values an operator sets.
DefaultParallelism == -1
Parallels == {DefaultParallelism, 0, 2}

\* The parallelism launch falls back to with the cudnn-fp16 backend.
Fp16Parallelism == 32

\* The first argument train and playMatch put in front of the engine's:
\* params = append([]string{"selfplay"}, params...).
Modes == {"selfplay", "uci"}

\* A launch that passes --parallelism only as the operator set it.
ParallelismArgExplicitOnly(mode, par, bo, fp16) ==
    IF par > 0 /\ mode = "selfplay" THEN par ELSE 0

\* launch's --parallelism argument (0 when none is passed) from the mode,
\* *parallel, *backopts and the current hasCudnnFp16.
ParallelismArg(mode, par, bo, fp16) ==
    LET parallelism ==
          IF bo = "" /\ fp16 /\ par <= 0 THEN Fp16Parallelism ELSE par
    IN IF parallelism > 0 /\ mode = "selfplay" THEN parallelism ELSE 0

\* client.NextGameResponse, as far as the client looks at it.
NoTask == [type |-> "none", sha |-> "", cand |-> "", flip |-> FALSE]

\* The answers of the server's /next_game.
ServerTasks ==
    [type : {"train", "match"}, sha : {"a", "b"}, cand : {"", "b"},
     flip : BOOLEAN]

\* The values a resign_report carries (ParseFloat accepts them); -1 is the
\* reader's "no threshold".
FpValues == {0, 5}
Unset == -1

\* An output line of the engine, by what the reader's switch looks at:
\*   fp16          contains "Your GPU doesn't support FP16"
\*   unknownflag   starts with "Unknown command line flag"
\*   resign_report with fp = "ok": "fp_threshold" followed by the number v;
\*                 "bad": followed by a token ParseFloat rejects;
\*                 "absent": no fp_threshold token;
\*                 "last": fp_threshold is the last token
\*   gameready     ok: trainingfile, gameid and moves are there
\*   bestmove, info
\*   capability    "GPU compute capability:" of at least 7.0
\*   checkfailed   starts with "*** ERROR check failed"
\*   badmoves      a gameready whose moves game.MoveStr rejects
\*   shortcap      "GPU compute capability:" with no fourth word
\*   other         any other line
Line(kind, fp, v, ok, player1, result) ==
    [kind |-> kind, fp |-> fp, v |-> v, ok |-> ok,
     player1 |-> player1, result |-> result]

PlainLine(kind) == Line(kind, "", 0, FALSE, "", "")

Players == {"white", "black"}
Results == {"whitewon", "blackwon", "draw"}

Lines ==
    { PlainLine(kind) :
        kind \in {"fp16", "unknownflag", "bestmove", "info",
                  "capability", "checkfailed", "badmoves", "shortcap",
                  "other"} }
    \cup { Line("resign_report", "ok", v, FALSE, "", "") : v \in FpValues }
    \cup { Line("resign_report", fp, 0, FALSE, "", "") :
             fp \in {"bad", "absent", "last"} }
    \cup { Line("gameready", "", 0, TRUE, p, r) :
             p \in Players, r \in Results }
    \cup { Line("gameready", "", 0, FALSE, "", "") }

VARIABLES
    help,               \* the output of "lc0 --help" (fixed)
    backopts,           \* the --backend-opts flag (fixed)
    parallel,           \* the --parallelism flag (fixed)
    limits,             \* the lines and the failed queries in a row that
                        \* a run is followed for (fixed)
    hasCudnnFp16,
    testedCudnnFp16,
    pendingNextGame,
    totalGames,
    scanned,            \* the lines scanned so far (a history variable)
    main,               \* the main goroutine: main's loop and nextGame;
                        \* cur: the calls of train and playMatch so far;
                        \* err (history): what the last call of nextGame
                        \* returned, or what ended the process
    eng,                \* per session: the engine subprocess
    rd,                 \* per session: the reader goroutine of launch
    orch,               \* per session: the call of train or playMatch
    wk,                 \* per session: the upload goroutines of train
    poll,               \* per session: the poller goroutine of nextGame
    upl,                \* per session: the uploader goroutine of playMatch
    fwd,                \* per session: the forwarder goroutines of playMatch
    bur,                \* a call of client.BuildUploadRequest
    uci                 \* the match of the client that plays over UCI

\* What no step of the client changes: the flags, the help output and, the
\* calls of getNetwork being followed in Part 1 and the making of an upload
\* request in Part 3, the cache directory and the request.
fixedVars == <<help, backopts, parallel, limits, bur, uci, cacheVars>>
taskVars ==
    <<help, backopts, parallel, limits, hasCudnnFp16, testedCudnnFp16,
      pendingNextGame, totalGames, scanned, main, eng, rd, orch, wk, poll,
      upl, fwd>>
clientVars == <<taskVars, bur, uci>>

vars == <<cacheVars, clientVars>>

\* gameInfo; fname and pgn are not looked at.
NoGame == [fp_threshold |-> Unset, player1 |-> "", result |-> ""]

NoEngine == [st |-> "none", arg |-> "", par |-> 0]

\* No *http.Request (nil), and no call of BuildUploadRequest.
NoReq == [method |-> "", host |-> "", body |-> "", contentLength |-> 0]
NoBuild == [pc |-> "idle"]

\* The reader goroutine: pc is "off" (no launch yet), "scan" (in
\* stdoutScanner.Scan), "sendRetry", "sendGi", "sendBest" (in the send on
\* that channel) or "closed" (returned: gi and BestMove are closed); gi is
\* the value being sent.  goodSince and
\* repSince, repVal are history fields: the value of the last well-formed
\* resign_report since the last gameready line (Unset if none), and what
\* the last resign_report with an fp_threshold token since the last game
\* sent was ("none", "ok" with its value, "bad").  live is a history field
\* too: the game being sent was parsed while the subprocess was running.
NoReader ==
    [pc |-> "off", last_fp_threshold |-> Unset, gi |-> NoGame,
     goodSince |-> Unset, repSince |-> "none", repVal |-> 0, live |-> FALSE]

\* A call of train or playMatch: pc is "off", "select" (in the loop's
\* select), "wait" (in c.Cmd.Wait), "wgwait" (in wg.Wait) or "returned".
\* ended, preempted, games, fp16, tested and left are history fields: the
\* loop saw gi closed; doneCh was closed when the loop ended; the games
\* the loop received; hasCudnnFp16 and testedCudnnFp16 as the loop read
\* them when it saw gi closed; and the goroutines counted by wg that had
\* not finished when the call returned.
NoCall ==
    [kind |-> "none", pc |-> "off", task |-> NoTask,
     progressOrKill |-> FALSE, trainDir |-> FALSE, reverseDone |-> FALSE,
     ret |-> "none", ended |-> FALSE, preempted |-> FALSE, games |-> 0,
     fp16 |-> FALSE, tested |-> FALSE, left |-> 0]

\* The poller goroutine of nextGame: "off", "sleep", "query", "prefetch"
\* (in getNetwork for the answer ng) or "closed" (returned: doneCh closed).
NoPoller == [pc |-> "off", errCount |-> 0, ng |-> NoTask]

\* The uploader goroutine of playMatch: "off", "select", "pair" (at the top
\* of the inner loop), "next" (in client.NextGame) or "closed" (returned:
\* doneCh closed).  last is a history field: the last result uploaded.
NoUpload == [flip |-> FALSE, player1 |-> "", result |-> "", num |-> 0]
NoUploader ==
    [pc |-> "off", curng |-> NoTask, flipped |-> << >>, normal |-> << >>,
     errCount |-> 0, pending |-> NoTask, last |-> NoUpload]

\* The client that plays a match over UCI (playMatch of the version
\* with two engines): pc is "idle" (main's loop, before nextGame), "loop"
\* (at the top of playMatch's for), "select" (in its select) or "sleep30"
\* (main's sleep after an error); st: the two subprocesses; closed: the
\* reader has closed BestMove; nilch: p.BestMove = nil; waited: the
\* seconds since the select began; ret (history): what the last
\* playMatch returned.
Engines == {"baseline", "candidate"}
NoMatch ==
    [pc |-> "idle", flip |-> FALSE, turn |-> 0, outcome |-> "none",
     waited |-> 0, ret |-> "none",
     st |-> [e \in Engines |-> "none"],
     closed |-> [e \in Engines |-> FALSE],
     nilch |-> [e \in Engines |-> FALSE]]

Alive == main.pc # "exited"

\* log.Fatal, os.Exit or a panic: the process is gone.
Exited == [main EXCEPT !.pc = "exited"]

ClientInit ==
    /\ help \in HelpOutputs
    /\ backopts \in BackOpts
    /\ hasCudnnFp16 = HasCudnnFp16(help)
    /\ testedCudnnFp16 = FALSE
    /\ pendingNextGame = NoTask
    /\ totalGames = 0
    /\ scanned = 0
    /\ main = [pc |-> "loop", cur |-> 0, err |-> "none"]
    /\ eng = [k \in Sessions |-> NoEngine]
    /\ rd = [k \in Sessions |-> NoReader]
    /\ orch = [k \in Sessions |-> NoCall]
    /\ wk = [k \in Sessions |-> << >>]
    /\ poll = [k \in Sessions |-> NoPoller]
    /\ upl = [k \in Sessions |-> NoUploader]
    /\ fwd = [k \in Sessions |-> << >>]
    /\ bur = NoBuild
    /\ uci = NoMatch

\* The process ends (log.Fatal, os.Exit, a panic in a goroutine): its
\* goroutines and subprocess pipes are gone; the package variables are left
\* as they were.  why is kept as a history of what ended it.
ExitProcess(why) ==
    /\ main' = [main EXCEPT !.pc = "exited", !.err = why]
    /\ eng' = [k \in Sessions |-> NoEngine]
    /\ rd' = [k \in Sessions |-> NoReader]
    /\ orch' = [k \in Sessions |-> NoCall]
    /\ wk' = [k \in Sessions |-> << >>]
    /\ poll' = [k \in Sessions |-> NoPoller]
    /\ upl' = [k \in Sessions |-> NoUploader]
    /\ fwd' = [k \in Sessions |-> << >>]
    /\ UNCHANGED <<fixedVars, scanned, hasCudnnFp16, testedCudnnFp16, pendingNextGame,
                   totalGames>>

(***************************************************************************)
(*                     main's loop and nextGame                            *)
(***************************************************************************)

\* What is left of a call of train or playMatch that has returned when
\* nextGame is called again: the task, which its poller or uploader
\* compares answers with, and reverseDoneCh.
Over(o) ==
    IF o.pc = "returned"
    THEN [NoCall EXCEPT !.kind = o.kind, !.pc = "returned", !.task = o.task,
                        !.reverseDone = o.reverseDone]
    ELSE o

\* What is left of an upload goroutine, a forwarder and an uploader that
\* have ended when nextGame is called again.
EndedWorker(w) ==
    IF w.pc = "done"
    THEN [pc |-> "done", retryCount |-> 0, fp_threshold |-> Unset,
          file |-> FALSE, tmp |-> 0, res |-> "none", att |-> << >>,
          delays |-> << >>]
    ELSE w
EndedForwarder(f) ==
    IF f.pc = "done" THEN [pc |-> "done", gi |-> NoGame] ELSE f
EndedUploader(u) ==
    IF u.pc = "closed" THEN [NoUploader EXCEPT !.pc = "closed"] ELSE u

\* c.launch: the subprocess is started in selfplay mode with the backend
\* argument and the parallelism chosen from the flags as they are now.
launch ==
    [st |-> "running", arg |-> BackendArg(backopts, hasCudnnFp16, help),
     par |-> ParallelismArg("selfplay", parallel, backopts, hasCudnnFp16)]

\* The task nextGame takes: the pending one if there is one, else one of
\* the server's answers.
Offered(tasks) ==
    IF pendingNextGame = NoTask THEN tasks ELSE {pendingNextGame}

\* nextGame up to its call of train or playMatch with the task t it took:
\* pendingNextGame is nil from then on; the assets are resolved;
\* for a training task the poller goroutine is started; train or playMatch
\* creates the cmdWrapper, launches the engine with its reader goroutine
\* and, in playMatch, starts the uploader goroutine with curng = &ngr.
NextGameRun(t) ==
    /\ main.pc = "loop"
    /\ main.cur < MaxTasks
    /\ LET k == main.cur + 1
       IN /\ pendingNextGame' = NoTask
          /\ main' = [main EXCEPT !.pc = "run", !.cur = k, !.err = "none"]
          /\ eng' = [eng EXCEPT ![k] = launch]
          /\ rd' = [rd EXCEPT ![k] = [NoReader EXCEPT !.pc = "scan"]]
          /\ orch' = [j \in Sessions |->
                        IF j = k
                        THEN [NoCall EXCEPT !.kind = t.type, !.pc = "select",
                                            !.task = t]
                        ELSE Over(orch[j])]
          /\ poll' = [poll EXCEPT ![k] =
                        IF t.type = "train"
                        THEN [NoPoller EXCEPT !.pc = "sleep"] ELSE NoPoller]
          /\ upl' = [j \in Sessions |->
                        IF j = k /\ t.type = "match"
                        THEN [NoUploader EXCEPT !.pc = "select", !.curng = t]
                        ELSE EndedUploader(upl[j])]
          /\ wk' = [j \in Sessions |->
                        [i \in 1..Len(wk[j]) |-> EndedWorker(wk[j][i])]]
          /\ fwd' = [j \in Sessions |->
                        [i \in 1..Len(fwd[j]) |-> EndedForwarder(fwd[j][i])]]
    /\ UNCHANGED <<fixedVars, scanned, hasCudnnFp16, testedCudnnFp16,
                   totalGames>>

\* nextGame returns an error before train or playMatch is called:
\* client.NextGame, json.Unmarshal, getBook or getNetwork failed, or the
\* game type is unknown.  A pending task it had taken is gone.
NextGameFails ==
    /\ main.pc = "loop"
    /\ pendingNextGame' = NoTask
    /\ main' = [main EXCEPT !.pc = "sleep30", !.err = "fetch"]
    /\ UNCHANGED <<fixedVars, scanned, hasCudnnFp16, testedCudnnFp16, totalGames,
                   eng, rd, orch, wk, poll, upl, fwd>>

\* client.NextGame, called by nextGame, by a poller or by an uploader, gets
\* an answer that is no JSON and holds " upgrade ": postParams calls
\* os.Exit(5).
ServerRejects ==
    /\ \/ main.pc = "loop" /\ pendingNextGame = NoTask
       \/ Alive /\ \E k \in Sessions : poll[k].pc = "query"
       \/ Alive /\ \E k \in Sessions : upl[k].pc = "next"
    /\ ExitProcess("upgrade")

\* nextGame has called getNetwork or getBook and the lock file cannot be
\* made, or TryLock fails with another error than ErrBusy: log.Fatalf.
LockFails ==
    /\ main.pc = "loop"
    /\ ExitProcess("lock")

\* nextGame has called train or playMatch and c.launch ends in log.Fatal:
\* the token "random" in --backend-opts, or an error of StdoutPipe or of
\* c.Cmd.Start().
LaunchFails ==
    /\ main.pc = "loop"
    /\ ExitProcess("launch")

\* main's time.Sleep (1 s after "retry", 30 s after another error) is over.
Wake ==
    /\ main.pc \in {"sleep1", "sleep30"}
    /\ main' = [main EXCEPT !.pc = "loop"]
    /\ UNCHANGED <<fixedVars, scanned, hasCudnnFp16, testedCudnnFp16, pendingNextGame,
                   totalGames, eng, rd, orch, wk, poll, upl, fwd>>

\* A loop that sleeps 30 s after every result.
MainAfterAlwaysLong(r) == [main EXCEPT !.pc = "sleep30", !.err = r]

\* train or playMatch has returned r ("ok" for a nil error), nextGame
\* returns it, and main's loop sleeps or goes on.  err keeps r until the
\* next call of train or playMatch.
MainAfter(r) ==
    [main EXCEPT !.pc = IF r = "retry" THEN "sleep1"
                        ELSE IF r = "ok" THEN "loop" ELSE "sleep30",
                 !.err = r]

(***************************************************************************)
(*               The engine and the reader goroutine                       *)
(***************************************************************************)

\* The subprocess exits by itself.
EngineExit(k) ==
    /\ Alive
    /\ eng[k].st = "running"
    /\ eng' = [eng EXCEPT ![k].st = "exited"]
    /\ UNCHANGED <<fixedVars, scanned, hasCudnnFp16, testedCudnnFp16, pendingNextGame,
                   totalGames, main, rd, orch, wk, poll, upl, fwd>>

\* The resign_report case: last_fp_threshold after the line, from its
\* value before.
\*   if fp_threshold_idx >= 0 {
\*       last_fp_threshold, err = strconv.ParseFloat(args[idx], 64)
\*       if err != nil { last_fp_threshold = -1.0 } }
ParseReport(l, last) ==
    IF l.fp = "absent" THEN last
    ELSE IF l.fp = "ok" THEN l.v
    ELSE Unset

\* The reader that does not reset last_fp_threshold after a send.
AfterSendKeeping(r) == [r EXCEPT !.pc = "scan", !.gi = NoGame]

\* c.gi <- gameInfo{...} has been received: last_fp_threshold = -1.0.
AfterSend(r) ==
    [r EXCEPT !.pc = "scan", !.gi = NoGame, !.last_fp_threshold = Unset]

\* The reader that tells nobody of the FP16 diagnostic.
ScanWithoutRetry(r, l) ==
    CASE l.kind = "resign_report" ->
            [r EXCEPT !.last_fp_threshold = ParseReport(l, @)]
      [] l.kind = "gameready" /\ l.ok ->
            [r EXCEPT !.pc = "sendGi",
                      !.gi = [fp_threshold |-> r.last_fp_threshold,
                              player1 |-> l.player1, result |-> l.result]]
      [] l.kind = "bestmove" -> [r EXCEPT !.pc = "sendBest"]
      [] OTHER -> r

\* The reader's switch on line l, as far as its own state goes.
Scan(r, l) ==
    CASE l.kind = "fp16" -> [r EXCEPT !.pc = "sendRetry"]
      [] l.kind = "resign_report" ->
            [r EXCEPT !.last_fp_threshold = ParseReport(l, @)]
      [] l.kind = "gameready" /\ l.ok ->
            [r EXCEPT !.pc = "sendGi",
                      !.gi = [fp_threshold |-> r.last_fp_threshold,
                              player1 |-> l.player1, result |-> l.result]]
      [] l.kind = "bestmove" -> [r EXCEPT !.pc = "sendBest"]
      [] OTHER -> r

\* The reader that ends the process on every FP16 diagnostic.
FatalOnFp16(l) ==
    \/ l.kind \in {"unknownflag", "checkfailed", "badmoves", "shortcap", "fp16"}
    \/ l.kind = "resign_report" /\ l.fp = "last"

\* The lines that end the process: log.Fatal for an unknown flag, for the
\* FP16 diagnostic under --backend-opts, for a failed dx12 self check and
\* for a move that convertMovesToPGN cannot play, and the index panics of a
\* resign_report that ends in "fp_threshold" and of a compute capability
\* line of three words.
Fatal(l) ==
    \/ l.kind \in {"unknownflag", "checkfailed", "badmoves", "shortcap"}
    \/ l.kind = "fp16" /\ backopts # ""
    \/ l.kind = "resign_report" /\ l.fp = "last"

\* What is kept of a line that ended the process: its kind, and for a
\* resign_report the form of its fp_threshold token.
Cause(l) == IF l.kind = "resign_report" THEN l.fp ELSE l.kind

\* The history fields of the reader after line l.
Seen(r, l) ==
    CASE l.kind = "resign_report" /\ l.fp = "ok" ->
            [r EXCEPT !.goodSince = l.v, !.repSince = "ok", !.repVal = l.v]
      [] l.kind = "resign_report" /\ l.fp = "bad" ->
            [r EXCEPT !.repSince = "bad", !.repVal = 0]
      [] l.kind = "gameready" /\ ~l.ok ->
            [r EXCEPT !.goodSince = Unset]
      [] OTHER -> r

\* The history fields of the reader once its game is sent.
Sent(r) ==
    [r EXCEPT !.goodSince = Unset, !.repSince = "none", !.repVal = 0,
              !.live = FALSE]

\* The history field live of reader r after line l of an engine in state st.
Parsed(r, l, st) ==
    IF l.kind = "gameready" /\ l.ok THEN [r EXCEPT !.live = st = "running"]
    ELSE r

\* stdoutScanner.Scan() returns line l and the switch runs up to its first
\* channel send.
ReadLine(k, l) ==
    /\ Alive
    /\ rd[k].pc = "scan"
    /\ scanned < limits.lines
    /\ IF Fatal(l)
       THEN ExitProcess(Cause(l))
       ELSE /\ rd' = [rd EXCEPT ![k] =
                       Parsed(Seen(Scan(rd[k], l), l), l, eng[k].st)]
            /\ scanned' = scanned + 1
            /\ hasCudnnFp16' = IF l.kind = "fp16" THEN FALSE
                               ELSE hasCudnnFp16
            /\ testedCudnnFp16' =
                  (testedCudnnFp16
                      \/ l.kind \in {"bestmove", "info", "capability"})
            /\ UNCHANGED <<fixedVars, pendingNextGame, totalGames, main, eng,
                           orch, wk, poll, upl, fwd>>

\* stdoutScanner.Scan() returns false: the subprocess has exited or was
\* killed and the pipe is drained.  The deferred close(c.gi) and
\* close(c.BestMove) run.
ReadEOF(k) ==
    /\ Alive
    /\ rd[k].pc = "scan"
    /\ eng[k].st \in {"exited", "killed", "reaped"}
    /\ rd' = [rd EXCEPT ![k] = [NoReader EXCEPT !.pc = "closed"]]
    /\ UNCHANGED <<fixedVars, scanned, hasCudnnFp16, testedCudnnFp16, pendingNextGame,
                   totalGames, main, eng, orch, wk, poll, upl, fwd>>

(***************************************************************************)
(*                 train, its upload workers, the poller                   *)
(***************************************************************************)

\* An upload goroutine of train, in uploadGame: pc is "try" (at the top of
\* the loop), "count" (after the loop: totalGames was loaded into tmp) or
\* "done" (uploadGame returned res and wg.Done ran); file: the training
\* file is there.  att (the outcomes of the httpClient.Do calls) and delays
\* (the seconds slept after them) are history fields.
Worker(fp) ==
    [pc |-> "try", retryCount |-> 0, fp_threshold |-> fp, file |-> TRUE,
     tmp |-> 0, res |-> "none", att |-> << >>, delays |-> << >>]

\* The goroutines counted by train's wg that have not finished.
Unfinished(k) ==
    Cardinality({ i \in 1..Len(wk[k]) : wk[k][i].pc # "done" })

\* The deferred func of train: os.RemoveAll(trainDir) takes the training
\* files of the session's games with it.
RemoveTrainDir(k) ==
    IF orch[k].trainDir
    THEN [i \in 1..Len(wk[k]) |-> [wk[k][i] EXCEPT !.file = FALSE]]
    ELSE wk[k]

\* train returns r: the deferred func runs, nextGame sets nextGame.Type to
\* "Done" and returns r to main's loop.
TrainReturn(k, r, o) ==
    /\ orch' = [orch EXCEPT ![k] =
                  [o EXCEPT !.pc = "returned", !.ret = r,
                            !.left = Unfinished(k)]]
    /\ wk' = [wk EXCEPT ![k] = RemoveTrainDir(k)]
    /\ main' = MainAfter(r)

InTrainSelect(k) ==
    Alive /\ orch[k].kind = "train" /\ orch[k].pc = "select"

\* case <-c.Retry: return errors.New("retry")
trainRetry(k) ==
    /\ InTrainSelect(k)
    /\ rd[k].pc = "sendRetry"
    /\ rd' = [rd EXCEPT ![k].pc = "scan"]
    /\ TrainReturn(k, "retry", orch[k])
    /\ UNCHANGED <<fixedVars, scanned, hasCudnnFp16, testedCudnnFp16, pendingNextGame,
                   totalGames, eng, poll, upl, fwd>>

\* A preemption that leaves the subprocess alone.
KillSkipped(e) == e

\* c.Cmd.Process.Kill()
Kill(e) == IF e.st = "running" THEN [e EXCEPT !.st = "killed"] ELSE e

\* case <-doneCh: the poller has closed doneCh.
trainDone(k) ==
    /\ InTrainSelect(k)
    /\ poll[k].pc = "closed"
    /\ orch' = [orch EXCEPT ![k].pc = "wait", ![k].progressOrKill = TRUE,
                            ![k].preempted = TRUE]
    /\ eng' = [eng EXCEPT ![k] = Kill(@)]
    /\ UNCHANGED <<fixedVars, scanned, hasCudnnFp16, testedCudnnFp16, pendingNextGame,
                   totalGames, main, rd, wk, poll, upl, fwd>>

\* case _, ok := <-c.BestMove with ok: the move is swallowed.  (With the
\* channel closed the case only breaks out of the select: no step.)
trainBestMove(k) ==
    /\ InTrainSelect(k)
    /\ rd[k].pc = "sendBest"
    /\ rd' = [rd EXCEPT ![k].pc = "scan"]
    /\ UNCHANGED <<fixedVars, scanned, hasCudnnFp16, testedCudnnFp16, pendingNextGame,
                   totalGames, main, eng, orch, wk, poll, upl, fwd>>

\* case gi, ok := <-c.gi with ok: the upload goroutine is started.
trainGame(k) ==
    /\ InTrainSelect(k)
    /\ rd[k].pc = "sendGi"
    /\ rd' = [rd EXCEPT ![k] = Sent(AfterSend(@))]
    /\ testedCudnnFp16' = TRUE
    /\ orch' = [orch EXCEPT ![k].progressOrKill = TRUE,
                            ![k].trainDir = TRUE, ![k].games = @ + 1]
    /\ wk' = [wk EXCEPT ![k] = Append(@, Worker(rd[k].gi.fp_threshold))]
    /\ UNCHANGED <<fixedVars, scanned, hasCudnnFp16, pendingNextGame, totalGames,
                   main, eng, poll, upl, fwd>>

\* The test of train and playMatch with testedCudnnFp16 left out.
Fp16UntestedIgnoringTested == hasCudnnFp16 /\ backopts = ""

\* The test of train and playMatch with *backopts left out.
Fp16UntestedIgnoringBackopts == hasCudnnFp16 /\ ~testedCudnnFp16

\* hasCudnnFp16 && !testedCudnnFp16 && *backopts == ""
Fp16Untested == hasCudnnFp16 /\ ~testedCudnnFp16 /\ backopts = ""

\* The history fields of a call whose loop sees gi closed; signalled tells
\* whether doneCh is closed by then.
SeesEnd(o, signalled) ==
    [o EXCEPT !.ended = TRUE, !.fp16 = hasCudnnFp16,
              !.tested = testedCudnnFp16, !.preempted = signalled]

\* A train whose break on the closed gi leaves only the select.
trainClosedStaying(k) ==
    /\ InTrainSelect(k)
    /\ rd[k].pc = "closed"
    /\ orch' = [orch EXCEPT ![k] = SeesEnd(orch[k], poll[k].pc = "closed")]
    /\ UNCHANGED <<hasCudnnFp16, wk, main>>
    /\ UNCHANGED <<fixedVars, scanned, testedCudnnFp16, pendingNextGame, totalGames,
                   eng, rd, poll, upl, fwd>>

\* case gi, ok := <-c.gi with !ok.
trainClosed(k) ==
    /\ InTrainSelect(k)
    /\ rd[k].pc = "closed"
    /\ IF Fp16Untested
       THEN /\ hasCudnnFp16' = FALSE
            /\ TrainReturn(k, "retry", SeesEnd(orch[k], poll[k].pc = "closed"))
       ELSE /\ orch' = [orch EXCEPT ![k] =
                  [SeesEnd(orch[k], poll[k].pc = "closed") EXCEPT !.pc = "wait"]]
            /\ UNCHANGED <<hasCudnnFp16, wk, main>>
    /\ UNCHANGED <<fixedVars, scanned, testedCudnnFp16, pendingNextGame, totalGames,
                   eng, rd, poll, upl, fwd>>

\* err := c.Cmd.Wait() returns once the subprocess has exited.
trainWait(k) ==
    /\ Alive
    /\ orch[k].kind = "train" /\ orch[k].pc = "wait"
    /\ eng[k].st \in {"exited", "killed"}
    /\ eng' = [eng EXCEPT ![k].st = "reaped"]
    /\ orch' = [orch EXCEPT ![k].pc = "wgwait"]
    /\ UNCHANGED <<fixedVars, scanned, hasCudnnFp16, testedCudnnFp16, pendingNextGame,
                   totalGames, main, rd, wk, poll, upl, fwd>>

\* wg.Wait() returns; if !progressOrKill the error "Client self-exited
\* without producing any games." is returned, else nil.
trainFinish(k) ==
    /\ Alive
    /\ orch[k].kind = "train" /\ orch[k].pc = "wgwait"
    /\ Unfinished(k) = 0
    /\ TrainReturn(k, IF orch[k].progressOrKill THEN "ok" ELSE "noprogress",
                   orch[k])
    /\ UNCHANGED <<fixedVars, scanned, hasCudnnFp16, testedCudnnFp16, pendingNextGame,
                   totalGames, eng, rd, poll, upl, fwd>>

\* What one pass of uploadGame's loop may meet: httpClient.Do fails
\* ("doErr"); reading the response body fails ("bodyErr"); the server
\* answers 200 ("accepted"), another status without " upgrade " in the body
\* ("status"), or another status with it ("upgrade").
UploadOutcomes == {"doErr", "bodyErr", "accepted", "status", "upgrade"}

\* A retry delay that does not grow.
DelayConstant(retryCount) == 4

\* time.Second * (2 << retryCount), in seconds.
Delay(retryCount) == 2 * 2^retryCount

\* One pass of uploadGame's loop, from retryCount++ to the return, the end
\* of the sleep, or the break; after the break totalGames is loaded.
\* BuildUploadRequest fails when the training file is gone.
uploadGame(k, i, o) ==
    /\ Alive
    /\ i \in 1..Len(wk[k])
    /\ wk[k][i].pc = "try"
    /\ LET w == [wk[k][i] EXCEPT !.retryCount = @ + 1]
           tried == [w EXCEPT !.att = Append(@, o)]
       IN IF w.retryCount <= RetryLimit /\ w.file /\ o = "upgrade"
          THEN ExitProcess("upgrade")
          ELSE /\ wk' = [wk EXCEPT ![k][i] =
                     IF w.retryCount > RetryLimit
                     THEN [w EXCEPT !.pc = "done", !.res = "err"]
                     ELSE IF ~w.file
                     THEN [w EXCEPT !.pc = "done", !.res = "err"]
                     ELSE IF o = "doErr"
                     THEN [tried EXCEPT !.pc = "done", !.res = "err"]
                     ELSE IF o = "bodyErr"
                     THEN [tried EXCEPT
                              !.delays = Append(@, Delay(w.retryCount))]
                     ELSE [tried EXCEPT !.pc = "count", !.tmp = totalGames]]
               /\ UNCHANGED <<fixedVars, scanned, hasCudnnFp16, testedCudnnFp16,
                              pendingNextGame, totalGames, main, eng, rd,
                              orch, poll, upl, fwd>>

\* totalGames++ is stored, os.Remove(path), return nil; wg.Done().
uploadCounted(k, i) ==
    /\ Alive
    /\ i \in 1..Len(wk[k])
    /\ wk[k][i].pc = "count"
    /\ totalGames' = wk[k][i].tmp + 1
    /\ wk' = [wk EXCEPT ![k][i].pc = "done", ![k][i].res = "ok",
                        ![k][i].file = FALSE, ![k][i].tmp = 0]
    /\ UNCHANGED <<fixedVars, scanned, hasCudnnFp16, testedCudnnFp16, pendingNextGame,
                   main, eng, rd, orch, poll, upl, fwd>>

\* The poller: time.Sleep(60 * time.Second) is over; it returns if
\* nextGame.Type is "Done" by now (train has returned).
pollWake(k) ==
    /\ Alive
    /\ poll[k].pc = "sleep"
    /\ poll' = [poll EXCEPT ![k].pc =
                  IF orch[k].pc = "returned" THEN "closed" ELSE "query"]
    /\ UNCHANGED <<fixedVars, scanned, hasCudnnFp16, testedCudnnFp16, pendingNextGame,
                   totalGames, main, eng, rd, orch, wk, upl, fwd>>

\* nextGame as the poller reads it: once train has returned, nextGame.Type
\* is "Done".
PollerTask(k) ==
    IF orch[k].pc = "returned"
    THEN [orch[k].task EXCEPT !.type = "Done"]
    ELSE orch[k].task

\* ng differs from the task in Type or Sha.
OtherTask(ng, t) == ng.type # t.type \/ ng.sha # t.sha

\* A poller that counts every failed query since its start.
pollAnswerNeverResetting(k, a) ==
    /\ Alive
    /\ poll[k].pc = "query"
    /\ a = NoTask => poll[k].errCount < limits.errs
    /\ IF a = NoTask
       THEN /\ poll' = [poll EXCEPT
                  ![k].errCount = @ + 1,
                  ![k].pc = IF poll[k].errCount + 1 < ErrLimit
                            THEN "sleep" ELSE "closed"]
            /\ UNCHANGED pendingNextGame
       ELSE IF OtherTask(a, PollerTask(k))
       THEN IF a.type = "match"
            THEN /\ poll' = [poll EXCEPT ![k].pc = "prefetch", ![k].ng = a]
                 /\ UNCHANGED pendingNextGame
            ELSE /\ poll' = [poll EXCEPT ![k].pc = "closed"]
                 /\ pendingNextGame' = a
       ELSE /\ poll' = [poll EXCEPT ![k].pc = "sleep"]
            /\ UNCHANGED pendingNextGame
    /\ UNCHANGED <<fixedVars, scanned, hasCudnnFp16, testedCudnnFp16, totalGames,
                   main, eng, rd, orch, wk, upl, fwd>>

\* The poller's client.NextGame returns a (NoTask for an error).
pollAnswer(k, a) ==
    /\ Alive
    /\ poll[k].pc = "query"
    /\ a = NoTask => poll[k].errCount < limits.errs
    /\ IF a = NoTask
       THEN /\ poll' = [poll EXCEPT
                  ![k].errCount = @ + 1,
                  ![k].pc = IF poll[k].errCount + 1 < ErrLimit
                            THEN "sleep" ELSE "closed"]
            /\ UNCHANGED pendingNextGame
       ELSE IF OtherTask(a, PollerTask(k))
       THEN IF a.type = "match"
            THEN /\ poll' = [poll EXCEPT ![k].pc = "prefetch", ![k].ng = a]
                 /\ UNCHANGED pendingNextGame
            ELSE /\ poll' = [poll EXCEPT ![k].pc = "closed"]
                 /\ pendingNextGame' = a
       ELSE /\ poll' = [poll EXCEPT ![k].errCount = 0, ![k].pc = "sleep"]
            /\ UNCHANGED pendingNextGame
    /\ UNCHANGED <<fixedVars, scanned, hasCudnnFp16, testedCudnnFp16, totalGames,
                   main, eng, rd, orch, wk, upl, fwd>>

\* A poller that returns after the prefetch without saving the answer.
pollPrefetchedUnsaved(k) ==
    /\ Alive
    /\ poll[k].pc = "prefetch"
    /\ poll' = [poll EXCEPT ![k].pc = "closed", ![k].ng = NoTask]
    /\ UNCHANGED <<fixedVars, scanned, hasCudnnFp16, testedCudnnFp16, totalGames,
                   pendingNextGame, main, eng, rd, orch, wk, upl, fwd>>

\* getNetwork(httpClient, ng.CandidateSha, inf) has returned:
\* pendingNextGame = &ng; return.
pollPrefetched(k) ==
    /\ Alive
    /\ poll[k].pc = "prefetch"
    /\ pendingNextGame' = poll[k].ng
    /\ poll' = [poll EXCEPT ![k].pc = "closed", ![k].ng = NoTask]
    /\ UNCHANGED <<fixedVars, scanned, hasCudnnFp16, testedCudnnFp16, totalGames,
                   main, eng, rd, orch, wk, upl, fwd>>

(***************************************************************************)
(*            playMatch, its uploader and its forwarders                   *)
(***************************************************************************)

\* A forwarder that has lost its game.
ForwarderOfNothing(gi) == [pc |-> "offer", gi |-> NoGame]

\* A forwarder goroutine of playMatch: "offer" (in its select) or "done".
Forwarder(gi) == [pc |-> "offer", gi |-> gi]

\* The goroutines counted by playMatch's wg that have not finished: the
\* uploader and the forwarders.
MatchUnfinished(k) ==
    (IF upl[k].pc # "closed" THEN 1 ELSE 0)
    + Cardinality({ i \in 1..Len(fwd[k]) : fwd[k][i].pc # "done" })

\* A nextGame that drops what playMatch returns.
MatchReturnKeepingPending(k, r, o) ==
    /\ orch' = [orch EXCEPT ![k] =
                  [o EXCEPT !.pc = "returned", !.ret = r,
                            !.left = MatchUnfinished(k)]]
    /\ pendingNextGame' = pendingNextGame
    /\ main' = MainAfter(r)

\* playMatch returns r with its local pendingNextGame; on a nil error
\* nextGame stores that in the package variable.
MatchReturn(k, r, o) ==
    /\ orch' = [orch EXCEPT ![k] =
                  [o EXCEPT !.pc = "returned", !.ret = r,
                            !.left = MatchUnfinished(k)]]
    /\ pendingNextGame' = IF r = "ok" THEN upl[k].pending
                          ELSE pendingNextGame
    /\ main' = MainAfter(r)

\* A playMatch whose loop takes an event only while the uploader is idle.
InMatchSelectWithIdleUploader(k) ==
    /\ Alive /\ orch[k].kind = "match" /\ orch[k].pc = "select"
    /\ upl[k].pc \in {"select", "closed"}

InMatchSelect(k) ==
    Alive /\ orch[k].kind = "match" /\ orch[k].pc = "select"

\* case <-c.Retry: close(reverseDoneCh); return nil, errors.New("retry")
playMatchRetry(k) ==
    /\ InMatchSelect(k)
    /\ rd[k].pc = "sendRetry"
    /\ rd' = [rd EXCEPT ![k].pc = "scan"]
    /\ MatchReturn(k, "retry", [orch[k] EXCEPT !.reverseDone = TRUE])
    /\ UNCHANGED <<fixedVars, scanned, hasCudnnFp16, testedCudnnFp16, totalGames,
                   eng, wk, poll, upl, fwd>>

\* case <-doneCh: the uploader has returned.
playMatchDone(k) ==
    /\ InMatchSelect(k)
    /\ upl[k].pc = "closed"
    /\ orch' = [orch EXCEPT ![k].pc = "wait", ![k].progressOrKill = TRUE,
                            ![k].preempted = TRUE]
    /\ eng' = [eng EXCEPT ![k] = Kill(@)]
    /\ UNCHANGED <<fixedVars, scanned, hasCudnnFp16, testedCudnnFp16, pendingNextGame,
                   totalGames, main, rd, wk, poll, upl, fwd>>

\* case _, ok := <-c.BestMove with ok.
playMatchBestMove(k) ==
    /\ InMatchSelect(k)
    /\ rd[k].pc = "sendBest"
    /\ rd' = [rd EXCEPT ![k].pc = "scan"]
    /\ UNCHANGED <<fixedVars, scanned, hasCudnnFp16, testedCudnnFp16, pendingNextGame,
                   totalGames, main, eng, orch, wk, poll, upl, fwd>>

\* case gi, ok := <-c.gi with ok: a forwarder is started.
playMatchGame(k) ==
    /\ InMatchSelect(k)
    /\ rd[k].pc = "sendGi"
    /\ rd' = [rd EXCEPT ![k] = Sent(AfterSend(@))]
    /\ testedCudnnFp16' = TRUE
    /\ orch' = [orch EXCEPT ![k].progressOrKill = TRUE,
                            ![k].trainDir = TRUE, ![k].games = @ + 1]
    /\ fwd' = [fwd EXCEPT ![k] = Append(@, Forwarder(rd[k].gi))]
    /\ UNCHANGED <<fixedVars, scanned, hasCudnnFp16, pendingNextGame, totalGames,
                   main, eng, wk, poll, upl>>

\* A playMatch whose fp16 branch closes reverseDoneCh and goes on to
\* c.Cmd.Wait instead of returning.
playMatchClosedFallingThrough(k) ==
    /\ InMatchSelect(k)
    /\ rd[k].pc = "closed"
    /\ hasCudnnFp16' = IF Fp16Untested THEN FALSE ELSE hasCudnnFp16
    /\ orch' = [orch EXCEPT ![k] =
          [SeesEnd(orch[k], upl[k].pc = "closed")
              EXCEPT !.pc = "wait",
                     !.reverseDone = IF Fp16Untested THEN TRUE ELSE @]]
    /\ UNCHANGED <<fixedVars, scanned, testedCudnnFp16, totalGames, eng, rd, wk, poll,
                   upl, fwd, pendingNextGame, main>>

\* case gi, ok := <-c.gi with !ok.
playMatchClosed(k) ==
    /\ InMatchSelect(k)
    /\ rd[k].pc = "closed"
    /\ IF Fp16Untested
       THEN /\ hasCudnnFp16' = FALSE
            /\ MatchReturn(k, "retry",
                  [SeesEnd(orch[k], upl[k].pc = "closed")
                      EXCEPT !.reverseDone = TRUE])
       ELSE /\ orch' = [orch EXCEPT ![k] =
                  [SeesEnd(orch[k], upl[k].pc = "closed") EXCEPT !.pc = "wait"]]
            /\ UNCHANGED <<hasCudnnFp16, pendingNextGame, main>>
    /\ UNCHANGED <<fixedVars, scanned, testedCudnnFp16, totalGames, eng, rd, wk, poll,
                   upl, fwd>>

\* err := c.Cmd.Wait() returns; close(reverseDoneCh).
playMatchWait(k) ==
    /\ Alive
    /\ orch[k].kind = "match" /\ orch[k].pc = "wait"
    /\ eng[k].st \in {"exited", "killed"}
    /\ eng' = [eng EXCEPT ![k].st = "reaped"]
    /\ orch' = [orch EXCEPT ![k].pc = "wgwait", ![k].reverseDone = TRUE]
    /\ UNCHANGED <<fixedVars, scanned, hasCudnnFp16, testedCudnnFp16, pendingNextGame,
                   totalGames, main, rd, wk, poll, upl, fwd>>

\* wg.Wait() returns; if !progressOrKill the error "Client self-exited
\* without producing any matches." is returned, else pendingNextGame, nil.
playMatchFinish(k) ==
    /\ Alive
    /\ orch[k].kind = "match" /\ orch[k].pc = "wgwait"
    /\ MatchUnfinished(k) = 0
    /\ MatchReturn(k, IF orch[k].progressOrKill THEN "ok" ELSE "noprogress",
                   orch[k])
    /\ UNCHANGED <<fixedVars, scanned, hasCudnnFp16, testedCudnnFp16, totalGames,
                   eng, rd, wk, poll, upl, fwd>>

\* The uploader: case <-reverseDoneCh: return (the deferred close(doneCh)
\* and wg.Done() run).
uploaderExit(k) ==
    /\ Alive
    /\ upl[k].pc = "select"
    /\ orch[k].reverseDone
    /\ upl' = [upl EXCEPT ![k].pc = "closed"]
    /\ UNCHANGED <<fixedVars, scanned, hasCudnnFp16, testedCudnnFp16, pendingNextGame,
                   totalGames, main, eng, rd, orch, wk, poll, fwd>>

\* The uploader: case gi, _ := <-gameInfoCh from forwarder i, which then
\* runs wg.Done(); the game goes to its bucket.
uploaderGame(k, i) ==
    /\ Alive
    /\ upl[k].pc = "select"
    /\ i \in 1..Len(fwd[k])
    /\ fwd[k][i].pc = "offer"
    /\ fwd' = [fwd EXCEPT ![k][i].pc = "done"]
    /\ upl' = [upl EXCEPT
          ![k].pc = "pair",
          ![k].flipped = IF fwd[k][i].gi.player1 = "black"
                         THEN Append(@, fwd[k][i].gi) ELSE @,
          ![k].normal = IF fwd[k][i].gi.player1 = "black"
                        THEN @ ELSE Append(@, fwd[k][i].gi)]
    /\ UNCHANGED <<fixedVars, scanned, hasCudnnFp16, testedCudnnFp16, pendingNextGame,
                   totalGames, main, eng, rd, orch, wk, poll>>

\* A forwarder: case <-doneCh: the uploader has returned.
forwarderDone(k, i) ==
    /\ Alive
    /\ i \in 1..Len(fwd[k])
    /\ fwd[k][i].pc = "offer"
    /\ upl[k].pc = "closed"
    /\ fwd' = [fwd EXCEPT ![k][i].pc = "done"]
    /\ UNCHANGED <<fixedVars, scanned, hasCudnnFp16, testedCudnnFp16, pendingNextGame,
                   totalGames, main, eng, rd, orch, wk, poll, upl>>

resultToNum(result) ==
    IF result = "whitewon" THEN 1
    ELSE IF result = "blackwon" THEN -1
    ELSE 0

\* The result uploaded without the negation.
UploadedRaw(flip, result) == resultToNum(result)

\* The result argument of client.UploadMatchResult for a slot with Flip =
\* flip and the game's result.
Uploaded(flip, result) ==
    IF flip THEN -resultToNum(result) ELSE resultToNum(result)

\* A bucket that gives up its oldest game.
Rest(s) == SubSeq(s, 2, Len(s))

\* flipped[:l-1], normal[:l-1]
Front(s) == SubSeq(s, 1, Len(s) - 1)

\* An uploader that keeps its slot after the upload and looks at its
\* buckets again.
uploaderPairKeepingSlot(k) ==
    /\ Alive
    /\ upl[k].pc = "pair"
    /\ LET u == upl[k]
           bucket == IF u.curng.flip THEN u.flipped ELSE u.normal
           nextgi == bucket[Len(bucket)]
       IN upl' = [upl EXCEPT ![k] =
             IF u.curng # NoTask /\ Len(bucket) > 0
             THEN [u EXCEPT
                     !.flipped = IF u.curng.flip THEN Front(@) ELSE @,
                     !.normal = IF u.curng.flip THEN @ ELSE Front(@),
                     !.last = [flip |-> u.curng.flip,
                               player1 |-> nextgi.player1,
                               result |-> nextgi.result,
                               num |-> Uploaded(u.curng.flip, nextgi.result)],
                     !.pc = "pair"]
             ELSE IF u.curng # NoTask
             THEN [u EXCEPT !.pc = "select"]
             ELSE [u EXCEPT !.pc = "next"]]
    /\ UNCHANGED <<fixedVars, scanned, hasCudnnFp16, testedCudnnFp16, pendingNextGame,
                   totalGames, main, eng, rd, orch, wk, poll, fwd>>

\* The uploader at the top of its inner loop: with a slot and a game in the
\* slot's bucket, the last game of the bucket is uploaded for the slot and
\* curng = nil; then, with a slot left, break; else call client.NextGame.
uploaderPair(k) ==
    /\ Alive
    /\ upl[k].pc = "pair"
    /\ LET u == upl[k]
           bucket == IF u.curng.flip THEN u.flipped ELSE u.normal
           nextgi == bucket[Len(bucket)]
       IN upl' = [upl EXCEPT ![k] =
             IF u.curng # NoTask /\ Len(bucket) > 0
             THEN [u EXCEPT
                     !.flipped = IF u.curng.flip THEN Front(@) ELSE @,
                     !.normal = IF u.curng.flip THEN @ ELSE Front(@),
                     !.last = [flip |-> u.curng.flip,
                               player1 |-> nextgi.player1,
                               result |-> nextgi.result,
                               num |-> Uploaded(u.curng.flip, nextgi.result)],
                     !.curng = NoTask,
                     !.pc = "next"]
             ELSE IF u.curng # NoTask
             THEN [u EXCEPT !.pc = "select"]
             ELSE [u EXCEPT !.pc = "next"]]
    /\ UNCHANGED <<fixedVars, scanned, hasCudnnFp16, testedCudnnFp16, pendingNextGame,
                   totalGames, main, eng, rd, orch, wk, poll, fwd>>

\* ng differs from the match in Type, Sha or CandidateSha.
OtherMatch(ng, t) ==
    ng.type # t.type \/ ng.sha # t.sha \/ ng.cand # t.cand

\* The uploader's client.NextGame returns a (NoTask for an error).
uploaderNext(k, a) ==
    /\ Alive
    /\ upl[k].pc = "next"
    /\ a = NoTask => upl[k].errCount < limits.errs
    /\ upl' = [upl EXCEPT ![k] =
          IF a = NoTask
          THEN [@ EXCEPT !.errCount = @ + 1,
                         !.pc = IF upl[k].errCount + 1 < ErrLimit
                                THEN "select" ELSE "closed"]
          ELSE IF OtherMatch(a, orch[k].task)
          THEN [@ EXCEPT !.pending = a, !.pc = "closed"]
          ELSE [@ EXCEPT !.curng = a, !.errCount = 0, !.pc = "pair"]]
    /\ UNCHANGED <<fixedVars, scanned, hasCudnnFp16, testedCudnnFp16, pendingNextGame,
                   totalGames, main, eng, rd, orch, wk, poll, fwd>>

(***************************************************************************)
(*                       The steps of the client                           *)
(***************************************************************************)

\* The steps of main's loop, with the tasks the server hands out.
MainSteps(tasks) ==
    \/ \E t \in Offered(tasks) : NextGameRun(t)
    \/ NextGameFails
    \/ ServerRejects
    \/ LockFails
    \/ LaunchFails
    \/ Wake

\* The steps of the engines and their readers, with the lines the engines
\* print.
EngineSteps(lines) ==
    \/ \E k \in Sessions : EngineExit(k)
    \/ \E k \in Sessions, l \in lines : ReadLine(k, l)
    \/ \E k \in Sessions : ReadEOF(k)

\* train's loop on the games and on the end of the output, and its return.
TrainGames ==
    \/ \E k \in Sessions : trainGame(k)
    \/ \E k \in Sessions : trainClosed(k)
    \/ \E k \in Sessions : trainWait(k)
    \/ \E k \in Sessions : trainFinish(k)

\* train's loop on c.Retry and c.BestMove.
TrainSignals ==
    \/ \E k \in Sessions : trainRetry(k)
    \/ \E k \in Sessions : trainBestMove(k)

\* The upload goroutines of train, with the outcomes their requests meet.
UploadSteps(outcomes) ==
    \/ \E k \in Sessions, i \in 1..MaxLines, o \in outcomes :
          uploadGame(k, i, o)
    \/ \E k \in Sessions, i \in 1..MaxLines : uploadCounted(k, i)

\* The poller with the answers it gets, and train's loop on doneCh.
PollerSteps(answers) ==
    \/ \E k \in Sessions : pollWake(k)
    \/ \E k \in Sessions, a \in answers : pollAnswer(k, a)
    \/ \E k \in Sessions : pollPrefetched(k)
    \/ \E k \in Sessions : trainDone(k)

\* playMatch's loop on the games and on the end of the output, its return,
\* the uploader with the answers it gets, and the forwarders.
MatchGames(answers) ==
    \/ \E k \in Sessions : playMatchDone(k)
    \/ \E k \in Sessions : playMatchGame(k)
    \/ \E k \in Sessions : playMatchClosed(k)
    \/ \E k \in Sessions : playMatchWait(k)
    \/ \E k \in Sessions : playMatchFinish(k)
    \/ \E k \in Sessions : uploaderExit(k)
    \/ \E k \in Sessions, i \in 1..MaxLines : uploaderGame(k, i)
    \/ \E k \in Sessions, i \in 1..MaxLines : forwarderDone(k, i)
    \/ \E k \in Sessions : uploaderPair(k)
    \/ \E k \in Sessions, a \in answers : uploaderNext(k, a)

\* playMatch's loop on c.Retry and c.BestMove.
MatchSignals ==
    \/ \E k \in Sessions : playMatchRetry(k)
    \/ \E k \in Sessions : playMatchBestMove(k)

Task(type, sha, cand, flip) ==
    [type |-> type, sha |-> sha, cand |-> cand, flip |-> flip]

TrainA == Task("train", "a", "", FALSE)
TrainB == Task("train", "b", "", FALSE)
Match(flip) == Task("match", "a", "b", flip)

\* A game of the candidate as white that white won.
GameLine == Line("gameready", "", 0, TRUE, "white", "whitewon")

GameLines == { l \in Lines : l.kind = "gameready" /\ l.ok }

\* The reader on every line, under a training task whose uploads succeed
\* at once while its poller sleeps.
ReaderNext ==
    \/ MainSteps({TrainA})
    \/ EngineSteps(Lines)
    \/ TrainGames
    \/ TrainSignals
    \/ UploadSteps({"accepted"})

\* The uploads of the games of a training task, on every outcome, while
\* the poller sleeps.
UploadNext ==
    \/ MainSteps({TrainA})
    \/ EngineSteps({GameLine})
    \/ TrainGames
    \/ UploadSteps(UploadOutcomes)

\* The games of a match, for both slots and every answer of the server.
MatchNext ==
    \/ MainSteps({Match(FALSE), Match(TRUE)})
    \/ EngineSteps(GameLines)
    \/ MatchGames({NoTask, Match(FALSE), Match(TRUE), TrainA})

\* Training and match tasks in turn, with the lines that revoke or prove the
\* fp16 backend, one kind of game, uploads that succeed, and pollers and
\* uploaders that are told of another task.
ClientLines ==
    { PlainLine("fp16"), PlainLine("info"), PlainLine("bestmove"), GameLine }

ClientNext ==
    \/ MainSteps({TrainA, Match(FALSE)})
    \/ EngineSteps(ClientLines)
    \/ TrainGames
    \/ TrainSignals
    \/ UploadSteps({"accepted"})
    \/ PollerSteps({TrainA, TrainB, Match(FALSE)})
    \/ MatchGames({Match(FALSE), TrainA})
    \/ MatchSignals

(***************************************************************************)
(*                      Properties of the client                           *)
(***************************************************************************)

\* C5 as stated: each gameInfo the reader sends carries the fp_threshold of
\* the most recent well-formed resign_report line seen since the previous
\* gameready line, and -1 if there was none.
C5_CarriesLastWellFormedReport ==
    \A k \in Sessions :
        rd[k].pc = "sendGi" => rd[k].gi.fp_threshold = rd[k].goodSince

\* C5 as amended: each gameInfo the reader sends carries what the most
\* recent resign_report line with an fp_threshold token, seen since the
\* previous gameInfo was sent, gave: its number if it parsed, -1 if it did
\* not; and -1 if there was no such line.  (So a threshold goes to the next
\* game sent only, and the game after that carries -1 unless a new
\* resign_report came.)
C5_CarriesLastReportSinceGame ==
    \A k \in Sessions :
        rd[k].pc = "sendGi" =>
            rd[k].gi.fp_threshold =
                IF rd[k].repSince = "ok" THEN rd[k].repVal ELSE Unset

\* The first game of a session went out with the threshold 5 of a
\* resign_report, and the second game is being sent with -1.
C5_Witness ==
    \E k \in Sessions :
        /\ Len(wk[k]) = 1
        /\ wk[k][1].fp_threshold = 5
        /\ rd[k].pc = "sendGi"
        /\ rd[k].gi.fp_threshold = Unset

\* The outcome number of a result: whitewon 1, blackwon -1, else 0.
Raw(result) ==
    CASE result = "whitewon" -> 1
      [] result = "blackwon" -> -1
      [] OTHER -> 0

\* The result as the side that played colour p sees it.
ScoreOf(p, result) ==
    CASE result = "draw" -> 0
      [] result = "whitewon" -> IF p = "white" THEN 1 ELSE -1
      [] result = "blackwon" -> IF p = "black" THEN 1 ELSE -1

\* C6: the result uploaded for a slot with Flip = true is the negated
\* outcome number of the paired game, for a slot with Flip = false the
\* outcome number itself; and it is the result as the candidate (player1 of
\* the game) sees it.
C6_ResultFromCandidateSide ==
    \A k \in Sessions :
        LET u == upl[k].last
        IN u # NoUpload =>
              /\ u.num = IF u.flip THEN 0 - Raw(u.result) ELSE Raw(u.result)
              /\ u.num = ScoreOf(u.player1, u.result)

\* A slot with Flip = true got the game the candidate won as black: the raw
\* outcome -1 was uploaded as 1.
C6_Witness ==
    \E k \in Sessions :
        upl[k].last = [flip |-> TRUE, player1 |-> "black",
                       result |-> "blackwon", num |-> 1]

\* An attempt of uploadGame that failed, and one the server accepted.
FailedAttempt(o) == o # "accepted"

\* C7: no uploadGame call makes more than three attempts; a call whose
\* first two attempts failed and whose third was accepted has returned
\* success after these three, having slept a longer time before the third
\* attempt than before the second.
C7_ThirdAttemptSucceeds ==
    \A k \in Sessions :
        \A i \in 1..Len(wk[k]) :
            LET w == wk[k][i]
            IN /\ Len(w.att) <= 3
               /\ ( /\ w.pc = "done"
                    /\ Len(w.att) >= 3
                    /\ FailedAttempt(w.att[1])
                    /\ FailedAttempt(w.att[2])
                    /\ w.att[3] = "accepted" )
                  => /\ w.res = "ok"
                     /\ Len(w.att) = 3
                     /\ Len(w.delays) = 2
                     /\ w.delays[1] < w.delays[2]

\* An uploadGame call has returned success after two failed attempts and
\* an accepted third.
C7_Witness ==
    \E k \in Sessions :
        \E i \in 1..Len(wk[k]) :
            /\ wk[k][i].pc = "done"
            /\ wk[k][i].res = "ok"
            /\ wk[k][i].att = <<"bodyErr", "bodyErr", "accepted">>

\* A call of train or playMatch has returned after its loop saw the output
\* end with no game received and doneCh not closed.
EndedIdle(k) ==
    /\ orch[k].pc = "returned"
    /\ orch[k].ended
    /\ orch[k].games = 0
    /\ ~orch[k].preempted

\* C8 as stated: when the output ends with no game received and no
\* preemption signal raised, train and playMatch return the no-progress
\* error.
C8_NoProgressReported ==
    \A k \in Sessions : EndedIdle(k) => orch[k].ret = "noprogress"

\* C8 as amended: when the output ends with no game received and no
\* preemption signal raised, train and playMatch never return success:
\* they return "retry" if hasCudnnFp16 was set, testedCudnnFp16 was not and
\* --backend-opts is empty, and the no-progress error otherwise.
C8_NoProgressOrRetry ==
    \A k \in Sessions :
        EndedIdle(k) =>
            orch[k].ret =
                IF orch[k].fp16 /\ ~orch[k].tested /\ backopts = ""
                THEN "retry" ELSE "noprogress"

\* With the fp16 backend in use and tested, a call has returned the
\* no-progress error after an output without games.
C8_Witness ==
    \E k \in Sessions :
        /\ EndedIdle(k)
        /\ orch[k].fp16 /\ orch[k].tested /\ backopts = ""
        /\ orch[k].ret = "noprogress"

\* The fp16 capability was found by checkLc0 and has been revoked since.
Revoked == HasCudnnFp16(help) /\ ~hasCudnnFp16

\* C9: once the fp16 capability is revoked (and --backend-opts is empty),
\* no step sets hasCudnnFp16 again and no step launches an engine with the
\* cudnn-fp16 backend.
C9_RevocationIsSticky ==
    [][ (Revoked /\ backopts = "") =>
            /\ ~hasCudnnFp16'
            /\ \A k \in Sessions :
                  (eng[k].st = "none" /\ eng'[k].st = "running")
                      => eng'[k].arg # "backend=cudnn-fp16" ]_vars

\* The first engine was launched with cudnn-fp16, the capability was
\* revoked, and the second engine runs with cudnn.
C9_Witness ==
    /\ Revoked
    /\ eng[1].arg = "backend=cudnn-fp16"
    /\ eng[2].st = "running"
    /\ eng[2].arg = "backend=cudnn"

\* C10: when train or playMatch has returned, every goroutine counted by
\* its wait group (upload goroutines; the uploader and the forwarders) had
\* finished.
C10_ReturnsAfterWorkers ==
    \A k \in Sessions : orch[k].pc = "returned" => orch[k].left = 0

\* C11 as stated: a training task one of whose uploads failed (uploadGame
\* returned an error) is never reported as success: train does not return
\* nil.
C11_FailedUploadFailsTask ==
    \A k \in Sessions :
        ( /\ orch[k].kind = "train"
          /\ orch[k].pc = "returned"
          /\ \E i \in 1..Len(wk[k]) : wk[k][i].res = "err" )
        => orch[k].ret # "ok"

\* C12 as stated: at any time at most one engine subprocess launched by the
\* client is running.
C12_OneEngineRunning ==
    Cardinality({ k \in Sessions : eng[k].st = "running" }) <= 1

\* A call of train or playMatch that has returned after its loop received
\* the preemption signal (doneCh closed) and killed the subprocess.
ReturnedPreempted(k) ==
    /\ orch[k].pc = "returned"
    /\ orch[k].preempted
    /\ ~orch[k].ended

\* C13 as stated: when a preempted task returns, no game whose gameready
\* line the reader parsed before the subprocess was killed is still in the
\* reader's hands, never handed to an upload worker or to the uploader.
C13_ParsedGamesHandedOver ==
    \A k \in Sessions :
        ReturnedPreempted(k) => ~(rd[k].pc = "sendGi" /\ rd[k].live)

\* train's loop has received the preemption signal (the doneCh case).
TrainPreempted(k) ==
    /\ orch[k].kind = "train"
    /\ orch[k].preempted
    /\ ~orch[k].ended

\* C14: once train has received the preemption signal the subprocess is no
\* longer running (it was killed, or had exited); train does not return
\* before the subprocess is reaped and every upload goroutine has finished,
\* and what it returns then is nil, whatever the number of games received.
C14_PreemptedTrainReturnsNil ==
    \A k \in Sessions :
        TrainPreempted(k) =>
            /\ eng[k].st \in {"killed", "exited", "reaped"}
            /\ orch[k].pc \in {"wait", "wgwait", "returned"}
            /\ orch[k].pc = "returned" =>
                  /\ orch[k].ret = "ok"
                  /\ eng[k].st = "reaped"
                  /\ orch[k].left = 0

\* A preempted train has killed its running subprocess and returned nil
\* without having received a game.
C14_Witness ==
    \E k \in Sessions :
        /\ TrainPreempted(k)
        /\ orch[k].pc = "returned"
        /\ orch[k].ret = "ok"
        /\ orch[k].games = 0
        /\ rd[k].pc = "closed"

\* A step in which train or playMatch returns to main's loop, and one in
\* which nextGame calls train or playMatch.
Returns == main.pc = "run" /\ main'.pc \in {"loop", "sleep1", "sleep30"}
Dispatches == main.pc = "loop" /\ main'.pc = "run"

\* What main's loop does with the result of nextGame: the 1 s sleep after
\* "retry", with the fp16 capability revoked by then; the 30 s sleep after
\* another error; the next iteration at once after success.
LoopFollowsResult ==
    Returns =>
        /\ main'.err = "retry" => main'.pc = "sleep1" /\ ~hasCudnnFp16'
        /\ main'.err = "ok" => main'.pc = "loop"
        /\ main'.err \notin {"retry", "ok"} => main'.pc = "sleep30"

\* An iteration that finds a pending task runs it, in the session it
\* starts, and clears it.
PendingRunOnce ==
    (Dispatches /\ pendingNextGame # NoTask) =>
        /\ orch'[main'.cur].task = pendingNextGame
        /\ pendingNextGame' = NoTask

\* C15 as stated: as above, and the iteration after an error other than
\* "retry" fetches a fresh task from the server (it finds no pending task).
C15_ErrorThenFreshFetch ==
    [][ /\ LoopFollowsResult
        /\ PendingRunOnce
        /\ (Dispatches /\ main.err \notin {"none", "retry", "ok"})
              => pendingNextGame = NoTask ]_vars

\* C15 as amended: "retry" leads to the 1 s sleep with the fp16 capability
\* revoked, any other error to the 30 s sleep, success to the next
\* iteration at once; and every iteration, after success, "retry" or
\* another error alike, runs the pending task if one is saved, without
\* querying the server, and clears it.
C15_EveryIterationRunsPending ==
    [][ LoopFollowsResult /\ PendingRunOnce ]_vars

\* The second task run is one only a poller can have saved (the server
\* hands main no such task), and the pending task is cleared.
C15_Witness ==
    /\ main.pc = "run"
    /\ main.cur = 2
    /\ orch[2].task = TrainB
    /\ pendingNextGame = NoTask

CRLF == "\r\n"

\* multipart.NewWriter draws a boundary of 30 random bytes, written as 60
\* hex digits.
Boundaries ==
    { "0123456789abcdef0123456789abcdef0123456789abcdef0123456789ab",
      "fedcba9876543210fedcba9876543210fedcba9876543210fedcba9876" \o "54" }

\* What url.Parse, called by http.NewRequest, makes of uri: the host, or an
\* error when the string holds a control character.
Uris == [host : {"some.uri", "lczero.org"}, ctl : BOOLEAN]

\* path, as its directory and its last element.
Paths == { [dir |-> "/games", base |-> "testresult.pgn"],
           [dir |-> "/games", base |-> "1.gz"] }

\* filepath.Base
Base(path) == path.base

\* What is at path: nothing, a directory (os.Open succeeds and Read fails),
\* or a regular file with its content.
Files ==
    { [kind |-> "missing", data |-> ""], [kind |-> "dir", data |-> ""] }
    \cup { [kind |-> "regular", data |-> d] :
             d \in {"", "1. d4 Nf6", "1. e4 e5 2. Nf3 1/2-1/2"} }

\* params: nil, or some of the fields that uploadGame and playMatch send.
Keys == {"user", "training_id"}
Params == UNION { [K -> {"x", "1234"}] : K \in SUBSET Keys }

\* multipart.Writer.CreatePart: the delimiter (without the leading CRLF for
\* the first part), the header lines sorted by name, and an empty line.
CreatePart(body, boundary, header) ==
    body \o (IF body = "" THEN "" ELSE CRLF) \o "--" \o boundary \o CRLF
         \o header \o CRLF

\* The header of CreateFormFile(fieldname, filename).
FormFileHeader(fieldname, filename) ==
    "Content-Disposition: form-data; name=\"" \o fieldname
        \o "\"; filename=\"" \o filename \o "\"" \o CRLF
        \o "Content-Type: application/octet-stream" \o CRLF

\* The header of CreateFormField(fieldname), which WriteField calls.
FormFieldHeader(fieldname) ==
    "Content-Disposition: form-data; name=\"" \o fieldname \o "\"" \o CRLF

\* BuildUploadRequest(uri, params, paramName, path) is called; NewWriter
\* has drawn its boundary.
BuildUploadRequest(uri, params, paramName, path, file, boundary) ==
    /\ bur.pc = "idle"
    /\ bur' = [pc |-> "open", uri |-> uri, params |-> params,
               paramName |-> paramName, path |-> path, file |-> file,
               boundary |-> boundary, body |-> "", left |-> DOMAIN params,
               req |-> NoReq, err |-> "nil"]

\* os.Open(path), and the return of its error.
burOpen ==
    /\ bur.pc = "open"
    /\ bur' = IF bur.file.kind = "missing"
              THEN [bur EXCEPT !.pc = "done", !.err = "open"]
              ELSE [bur EXCEPT !.pc = "create"]

\* writer.CreateFormFile(paramName, filepath.Base(path)): a write to a
\* bytes.Buffer has no error.
burCreateFormFile ==
    /\ bur.pc = "create"
    /\ bur' = [bur EXCEPT
                 !.pc = "copy",
                 !.body = CreatePart(bur.body, bur.boundary,
                              FormFileHeader(bur.paramName, Base(bur.path)))]

\* An io.Copy that reads nothing.
CopyNothing(body, file) == body

\* What io.Copy leaves in the part: the bytes of the file, none for a
\* directory.
Copy(body, file) == body \o file.data

\* io.Copy(part, file): its error (a directory cannot be read) is assigned
\* to err and overwritten by writer.Close.
burCopy ==
    /\ bur.pc = "copy"
    /\ bur' = [bur EXCEPT !.pc = "fields",
                          !.body = Copy(bur.body, bur.file),
                          !.err = IF bur.file.kind = "dir" THEN "read"
                                  ELSE "nil"]

\* One turn of the range over params, in the order the map gives:
\* writer.WriteField(key, val), its error dropped.
burWriteField(key) ==
    /\ bur.pc = "fields"
    /\ key \in bur.left
    /\ bur' = [bur EXCEPT
                 !.left = bur.left \ {key},
                 !.body = CreatePart(bur.body, bur.boundary,
                              FormFieldHeader(key)) \o bur.params[key]]

\* writer.Close(): the closing delimiter; err is nil again.
burClose ==
    /\ bur.pc = "fields"
    /\ bur.left = {}
    /\ bur' = [bur EXCEPT
                 !.pc = "newreq",
                 !.err = "nil",
                 !.body = bur.body \o CRLF \o "--" \o bur.boundary \o "--"
                                   \o CRLF]

\* http.NewRequest("POST", uri, body): the error of url.Parse, or a request
\* whose ContentLength is body.Len(); then the Content-Type header and the
\* return.
burNewRequest ==
    /\ bur.pc = "newreq"
    /\ bur' = IF bur.uri.ctl
              THEN [bur EXCEPT !.pc = "done", !.err = "url"]
              ELSE [bur EXCEPT
                      !.pc = "done",
                      !.req = [method |-> "POST", host |-> bur.uri.host,
                               body |-> bur.body,
                               contentLength |-> Len(bur.body)]]

\* The calls of BuildUploadRequest, with the cache and the tasks standing
\* still.
BuildNext ==
    \/ /\ \E uri \in Uris, params \in Params, path \in Paths, file \in Files,
            boundary \in Boundaries :
             BuildUploadRequest(uri, params, "file", path, file, boundary)
       /\ UNCHANGED <<cacheVars, taskVars, uci>>
    \/ /\ burOpen
       /\ UNCHANGED <<cacheVars, taskVars, uci>>
    \/ /\ burCreateFormFile
       /\ UNCHANGED <<cacheVars, taskVars, uci>>
    \/ /\ burCopy
       /\ UNCHANGED <<cacheVars, taskVars, uci>>
    \/ /\ \E key \in Keys : burWriteField(key)
       /\ UNCHANGED <<cacheVars, taskVars, uci>>
    \/ /\ burClose
       /\ UNCHANGED <<cacheVars, taskVars, uci>>
    \/ /\ burNewRequest
       /\ UNCHANGED <<cacheVars, taskVars, uci>>

\* The parts that the fields of params make, written in the order keys.
RECURSIVE FieldParts(_, _, _)
FieldParts(keys, params, boundary) ==
    IF keys = << >> THEN ""
    ELSE CRLF \o "--" \o boundary \o CRLF \o FormFieldHeader(Head(keys))
              \o CRLF \o params[Head(keys)]
              \o FieldParts(Tail(keys), params, boundary)

\* The multipart/form-data encoding of one file and of fields (RFC 7578).
Multipart(boundary, fieldname, filename, data, keys, params) ==
    "--" \o boundary \o CRLF \o FormFileHeader(fieldname, filename) \o CRLF
         \o data \o FieldParts(keys, params, boundary)
         \o CRLF \o "--" \o boundary \o "--" \o CRLF

\* The orders in which a range over a map can give its keys.
Orders(K) ==
    { s \in UNION { [1..n -> K] : n \in {Cardinality(K)} } :
        \A i, j \in 1..Len(s) : i # j => s[i] # s[j] }

\* The bytes around the file's content when params is nil.
FileOverhead(fieldname, filename) ==
    Len(Multipart(CHOOSE b \in Boundaries : TRUE, fieldname, filename, "",
                  << >>, << >>))

\* C17: for a regular file (and a uri that url.Parse accepts) the call
\* returns a nil error and a POST request to the host of uri whose body is
\* the multipart encoding of the file followed by the fields of params in
\* some order, and whose length, when params is nil, is the length of the
\* file plus a number fixed by paramName and the file's name; for a file
\* that cannot be opened it returns a nil request and the error.
C17_BuildsMultipartPost ==
    bur.pc = "done" =>
        /\ bur.file.kind = "missing" => bur.req = NoReq /\ bur.err = "open"
        /\ (bur.file.kind = "regular" /\ ~bur.uri.ctl) =>
             /\ bur.err = "nil"
             /\ bur.req # NoReq
             /\ bur.req.method = "POST"
             /\ bur.req.host = bur.uri.host
             /\ \E keys \in Orders(DOMAIN bur.params) :
                    bur.req.body =
                        Multipart(bur.boundary, bur.paramName,
                                  Base(bur.path), bur.file.data, keys,
                                  bur.params)
             /\ DOMAIN bur.params = {} =>
                    bur.req.contentLength =
                        Len(bur.file.data)
                        + FileOverhead(bur.paramName, Base(bur.path))

\* A request was made of a file with content and of two fields.
C17_Witness ==
    /\ bur.pc = "done"
    /\ bur.file.kind = "regular" /\ bur.file.data # ""
    /\ DOMAIN bur.params = Keys
    /\ bur.req # NoReq /\ bur.err = "nil"
    /\ bur.req.contentLength > Len(bur.file.data)

\* The reader of session k is in a send on gi, BestMove or Retry, which
\* have no buffer.
InSend(k) == rd[k].pc \in {"sendGi", "sendBest", "sendRetry"}

\* C18 as stated: the reader is never left in a send that nothing will
\* receive; once train has returned, which ends every receive on the
\* channels of its launch, the reader is not in a send, so that it reaches
\* the end of the output and closes gi and BestMove.
C18_ReaderNeverStuck ==
    \A k \in Sessions :
        (orch[k].kind = "train" /\ orch[k].pc = "returned") => ~InSend(k)

\* The reader of session k has read the FP16 diagnostic and is in, or in
\* this step gets to, the send on c.Retry.
Diagnosed(k) == rd[k].pc = "sendRetry"

\* The call of session k returns in this step, with r.
ReturnsWith(k, r) ==
    orch[k].pc # "returned" /\ orch'[k].pc = "returned" /\ orch'[k].ret = r

\* The loop of session k sees in this step that the output has ended.
SeesOutputEnd(k) == ~orch[k].ended /\ orch'[k].ended

\* C19 as stated: without --backend-opts, a call whose engine has
\* printed the FP16 diagnostic returns "retry" (ret is "none" once the
\* next call has begun).
C19_DiagnosticMeansRetry ==
    \A k \in Sessions :
        (backopts = "" /\ orch[k].pc = "returned" /\ Diagnosed(k))
            => orch[k].ret \in {"retry", "none"}

\* C19 as amended, without --backend-opts and while the process lives: the
\* diagnostic revokes the capability at once, and its signal is taken only
\* by a return of "retry"; a loop that sees the end of the output returns
\* "retry" and revokes the capability when it is active and no inference
\* activity was observed, and goes on to wait, the capability as it was,
\* otherwise; the capability is revoked by nothing else, and "retry" is
\* returned only with it revoked; a call that returned something else with
\* the diagnostic unreceived was preempted.
C19_RevokedOnDiagnosticOrEarlyEnd ==
    [][ (backopts = "" /\ main'.pc # "exited") =>
          /\ \A k \in Sessions :
               /\ (~Diagnosed(k) /\ Diagnosed(k)') => ~hasCudnnFp16'
               /\ (Diagnosed(k) /\ ~Diagnosed(k)') => ReturnsWith(k, "retry")
               /\ SeesOutputEnd(k) =>
                    IF hasCudnnFp16 /\ ~testedCudnnFp16
                    THEN ReturnsWith(k, "retry") /\ ~hasCudnnFp16'
                    ELSE /\ orch'[k].pc = "wait"
                         /\ hasCudnnFp16' = hasCudnnFp16
               /\ ReturnsWith(k, "retry") => ~hasCudnnFp16'
               /\ (orch'[k].pc = "returned" /\ Diagnosed(k)'
                     /\ orch'[k].ret \notin {"retry", "none"})
                    => orch'[k].preempted
          /\ (hasCudnnFp16 /\ ~hasCudnnFp16') =>
               \E k \in Sessions :
                   \/ ~Diagnosed(k) /\ Diagnosed(k)'
                   \/ SeesOutputEnd(k) /\ ReturnsWith(k, "retry")
      ]_vars

\* The fp16 engine of the first task ended before any inference activity,
\* and the call returned "retry" with the capability revoked.
C19_Witness ==
    /\ backopts = ""
    /\ HasCudnnFp16(help) /\ ~hasCudnnFp16
    /\ eng[1].arg = "backend=cudnn-fp16"
    /\ orch[1].pc = "returned" /\ orch[1].ended /\ orch[1].fp16
    /\ ~orch[1].tested /\ orch[1].ret = "retry"

\* C20: with --backend-opts set, every engine is launched with that string
\* as its backend options, hasCudnnFp16 stays what checkLc0 found, no
\* reader gets to signal Retry, and no call of train or playMatch returns
\* "retry".
C20_OverrideIsVerbatimWithoutFallback ==
    backopts # "" =>
        /\ hasCudnnFp16 = HasCudnnFp16(help)
        /\ \A k \in Sessions :
             /\ eng[k].st # "none" => eng[k].arg = backopts
             /\ rd[k].pc # "sendRetry"
             /\ orch[k].ret # "retry"

\* With --backend-opts set and the fp16 backend on offer, an engine ended
\* before any inference activity: the call returned the no-progress error
\* and the capability is still there.
C20_Witness ==
    /\ backopts # ""
    /\ HasCudnnFp16(help) /\ hasCudnnFp16 /\ ~testedCudnnFp16
    /\ eng[1].st = "reaped" /\ eng[1].arg = backopts
    /\ orch[1].pc = "returned" /\ orch[1].ended
    /\ orch[1].ret = "noprogress"

\* The uploader of session k has been told of another task and has
\* returned; the call of playMatch has returned too and the next call has
\* not begun.
SlotChanged(k) ==
    /\ orch[k].kind = "match" /\ orch[k].pc = "returned"
    /\ orch[k].ret # "none"
    /\ upl[k].pc = "closed" /\ upl[k].pending # NoTask

\* C21 as stated: a match whose uploader was told of another task ends
\* with the engine killed and a nil error, and the task it was told of is
\* the pending task until the next iteration takes it.
C21_OtherTaskEndsMatch ==
    \A k \in Sessions : SlotChanged(k) =>
        /\ orch[k].ret = "ok"
        /\ eng[k].st = "reaped"
        /\ pendingNextGame = upl[k].pending

\* C21 as amended: a match whose uploader was told of another task returns
\* nil, with the engine stopped and reaped, or "retry" when its loop took
\* the Retry signal of the reader instead; when playMatch returns nil,
\* nextGame makes what the uploader was told of (nothing, if it was told of
\* nothing) the pending task, and an iteration that finds a pending task
\* runs it.
C21_OtherTaskIsHandedOver ==
    [][ /\ \A k \in Sessions :
            /\ SlotChanged(k)' =>
                 /\ orch'[k].ret \in {"ok", "retry"}
                 /\ orch'[k].ret = "ok" => eng'[k].st = "reaped"
                 /\ orch'[k].ret = "retry" =>
                        (backopts = "" /\ ~hasCudnnFp16')
            /\ (orch[k].kind = "match" /\ ReturnsWith(k, "ok")) =>
                 pendingNextGame' = upl[k].pending
        /\ (Dispatches /\ pendingNextGame # NoTask) =>
              orch'[main'.cur].task = pendingNextGame
      ]_vars

\* A match has returned nil after its uploader was told of a training
\* task, which is now the pending task.
C21_Witness ==
    /\ SlotChanged(1) /\ orch[1].ret = "ok" /\ orch[1].preempted
    /\ upl[1].pending = TrainA
    /\ pendingNextGame = TrainA
    /\ main.pc = "loop"

\* The bucket of uploader u for a slot with Flip = flip, and the other one.
Bucket(u, flip) == IF flip THEN u.flipped ELSE u.normal

\* C22: a game that the uploader receives goes to the end of the bucket of
\* its colour (flipped for player1 = "black", normal otherwise); with a
\* slot and a game in the slot's bucket the uploader uploads the last game
\* of that bucket for the slot, takes it off the bucket and leaves the
\* other bucket alone; and it waits for a game with a slot in hand only
\* when the slot's bucket is empty.
C22_PairsLastOfOwnBucket ==
    [][ \A k \in Sessions : main'.pc # "exited" =>
          LET u == upl[k]
              v == upl'[k]
              own == Bucket(u, u.curng.flip)
          IN /\ (u.pc = "select" /\ v.pc = "pair") =>
                   \E g \in [fp_threshold : FpValues \cup {Unset},
                             player1 : Players, result : Results] :
                       /\ Bucket(v, g.player1 = "black")
                            = Append(Bucket(u, g.player1 = "black"), g)
                       /\ Bucket(v, g.player1 # "black")
                            = Bucket(u, g.player1 # "black")
             /\ (u.pc = "pair" /\ v # u /\ u.curng # NoTask) =>
                   IF Len(own) > 0
                   THEN /\ v.last.player1 = own[Len(own)].player1
                        /\ v.last.result = own[Len(own)].result
                        /\ v.last.flip = u.curng.flip
                        /\ Bucket(v, u.curng.flip)
                             = SubSeq(own, 1, Len(own) - 1)
                        /\ Bucket(v, ~u.curng.flip)
                             = Bucket(u, ~u.curng.flip)
                        /\ v.curng = NoTask
                   ELSE /\ v.pc = "select"
                        /\ v.flipped = u.flipped /\ v.normal = u.normal
             /\ (v.pc = "select" /\ v.curng # NoTask) =>
                   Bucket(v, v.curng.flip) = << >>
      ]_vars

\* The uploader has paired a slot with the later of two games of the
\* slot's bucket that differ in their result; the earlier one is left.
C22_Witness ==
    /\ upl[1].pc = "next"
    /\ ~upl[1].last.flip /\ upl[1].last.player1 # "black"
    /\ Len(upl[1].normal) = 1
    /\ upl[1].normal[1].result # upl[1].last.result
    /\ upl[1].flipped = << >>

\* The poller of session k returns in this step, closing doneCh, for
\* another reason than ten errors in a row.
PollerCloses(k) ==
    /\ poll[k].pc # "closed" /\ poll'[k].pc = "closed"
    /\ poll'[k].errCount < ErrLimit

\* train's loop takes the doneCh case in this step.
ObservesPreemption(k) ==
    /\ orch[k].kind = "train" /\ orch[k].pc = "select"
    /\ orch'[k].pc = "wait" /\ orch'[k].preempted /\ ~orch'[k].ended

\* C23: a poller that is told of another task while train runs saves the
\* answer in pendingNextGame in the step in which it returns and closes
\* doneCh, for a match task after the prefetch of the candidate and never
\* before it; so a pending task is set whenever train takes the doneCh
\* case.
C23_PendingSetBeforeDone ==
    [][ \A k \in Sessions : main'.pc # "exited" =>
          /\ (PollerCloses(k) /\ orch[k].pc # "returned"
                /\ poll[k].pc # "sleep") =>
                /\ pendingNextGame' # NoTask
                /\ OtherTask(pendingNextGame', orch[k].task)
                /\ pendingNextGame'.type = "match" <=> poll[k].pc = "prefetch"
          /\ (poll[k].pc = "query"
                /\ poll'[k].pc \notin {"query", "prefetch"}) =>
                (pendingNextGame' = pendingNextGame
                   \/ pendingNextGame'.type # "match")
          /\ poll'[k].pc = "prefetch" =>
                /\ poll'[k].ng.type = "match"
                /\ poll[k].pc \in {"query", "prefetch"}
          /\ (ObservesPreemption(k) /\ poll[k].errCount < ErrLimit) =>
                pendingNextGame # NoTask
      ]_vars

\* train has taken the doneCh case after its poller was told of a match,
\* fetched the candidate and saved the match as the pending task.
C23_Witness ==
    /\ orch[1].kind = "train" /\ orch[1].pc = "wait"
    /\ orch[1].preempted /\ ~orch[1].ended
    /\ poll[1].pc = "closed"
    /\ pendingNextGame = Match(FALSE)

\* C24 as stated, for the buckets: the forwarders of a match hand their
\* games to the uploader in the order in which the loop received them.
C24_BucketsInEmissionOrder ==
    \A k \in Sessions : \A i, j \in 1..Len(fwd[k]) :
        (i < j /\ upl[k].pc # "closed" /\ fwd[k][j].pc = "done")
            => fwd[k][i].pc = "done"

\* C24 as amended: the reader holds one game at a time and keeps it until
\* the loop of train or playMatch receives it, which happens once and puts
\* that game behind the games received before (as an upload goroutine of
\* train, as a forwarder of playMatch); the uploader of a match receives
\* the game of one forwarder that still offers it, whichever, and that
\* forwarder is done.
C24_ReceivedInOrderForwardedInAny ==
    [][ \A k \in Sessions : main'.pc # "exited" =>
          /\ (rd[k].pc = "sendGi" /\ rd'[k].pc = "sendGi") =>
                rd'[k].gi = rd[k].gi
          /\ (rd[k].pc = "sendGi" /\ rd'[k].pc # "sendGi") =>
                /\ rd'[k].pc = "scan"
                /\ orch'[k].games = orch[k].games + 1
                /\ orch[k].kind = "train" =>
                     /\ Len(wk'[k]) = Len(wk[k]) + 1
                     /\ SubSeq(wk'[k], 1, Len(wk[k])) = wk[k]
                     /\ wk'[k][Len(wk'[k])].fp_threshold
                          = rd[k].gi.fp_threshold
                /\ orch[k].kind = "match" =>
                     fwd'[k] = fwd[k] \o <<[pc |-> "offer", gi |-> rd[k].gi]>>
          /\ (upl[k].pc = "select" /\ upl'[k].pc = "pair") =>
                \E i \in 1..Len(fwd[k]) :
                    /\ fwd[k][i].pc = "offer"
                    /\ fwd'[k] = [fwd[k] EXCEPT ![i].pc = "done"]
                    /\ Bucket(upl'[k], fwd[k][i].gi.player1 = "black")
                         = Append(Bucket(upl[k],
                                         fwd[k][i].gi.player1 = "black"),
                                  fwd[k][i].gi)
      ]_vars

\* The uploader of a match has received the second game of the engine
\* while the forwarder of the first still offers it.
C24_Witness ==
    /\ Len(fwd[1]) = 2
    /\ fwd[1][1].pc = "offer" /\ fwd[1][2].pc = "done"
    /\ upl[1].pc = "pair"
    /\ orch[1].games = 2

\* What a malformed line leaves in main.err when it ends the process: a
\* gameready whose moves cannot be played, a resign_report that ends in
\* fp_threshold, a compute capability line of three words.
MalformedCauses == {"badmoves", "last", "shortcap"}

\* C25 as stated: no malformed line of the engine ends the process.
C25_MalformedLineIsSkipped ==
    main.pc = "exited" => main.err \notin MalformedCauses

\* No getNetwork call for identifier s is in progress.
Quiet(s) == \A p \in Procs : gn[p].pc = "idle" \/ gn[p].sha # s

\* C26: checkValidNetwork finds the file it read invalid exactly when the
\* content does not gunzip to bytes of the wanted digest; it then removes
\* what is at the path and returns the error, after which the first call
\* of getNetwork goes on to acquireLock and the call after the download to
\* the return of the error; and when no call for an identifier is in
\* progress, its path holds no file or a file that verifies.
C26_InvalidFileIsDeleted ==
    [][ /\ \A p \in Procs :
            LET path == NetName(gn[p].sha)
            IN /\ (gn[p].pc = "open" /\ gn'[p].pc # "open") =>
                    (gn'[p].pc = "remove" <=>
                        ~(Present(path) /\ Verified(dir[path].body, gn[p].sha)))
               /\ (gn[p].pc = "remove" /\ gn'[p].pc # "remove") =>
                    /\ dir'[path] = NoFile
                    /\ gn'[p].ret = "err"
                    /\ gn'[p].pc = IF gn[p].phase = 1 THEN "lock" ELSE "unlock"
               /\ (gn[p].pc = "unlock" /\ gn[p].ret = "err"
                     /\ gn'[p].pc = "idle") => gn'[p].res = "err"
        /\ \A s \in Shas :
             (Quiet(s)' /\ dir'[NetName(s)] # NoFile) =>
                 Verified(dir'[NetName(s)].body, s)
      ]_vars

\* One process alone has downloaded a file that failed verification, has
\* removed it and is about to return the error.
C26_Witness ==
    /\ gn["p2"] = IdleCall
    /\ gn["p1"].pc = "unlock" /\ gn["p1"].phase = 2 /\ gn["p1"].ret = "err"
    /\ dir[NetName(gn["p1"].sha)] = NoFile
    /\ dir[TmpName("p1")] = NoFile

\* C27: uploadGame gets past its loop, and so counts the game, removes the
\* training file and returns nil, only when the last answer it received was
\* the server's acceptance of the upload; and at the step at which it
\* returns an error it leaves the file as it was.
C27_DeletesOnlyAcceptedGames ==
    [][ \A k \in Sessions : \A i \in 1..Len(wk[k]) :
          (Len(wk'[k]) >= i /\ wk[k][i].pc = "try") =>
            /\ wk'[k][i].pc = "count" =>
                 wk'[k][i].att[Len(wk'[k][i].att)] = "accepted"
            /\ wk'[k][i].res = "err" => wk'[k][i].file = wk[k][i].file
      ]_vars

\* C28: when train or playMatch returns and its deferred func removes the
\* training-data directory, every goroutine counted by the task's wait
\* group has finished, so none is inside uploadGame with a file of that
\* directory.
C28_DirRemovedAfterWorkers ==
    [][ \A k \in Sessions :
          (orch[k].pc # "returned" /\ orch'[k].pc = "returned"
             /\ orch[k].trainDir) =>
            /\ orch[k].kind = "train" => Unfinished(k) = 0
            /\ orch[k].kind = "match" => MatchUnfinished(k) = 0
      ]_vars

\* The uploader of session k is in client.UploadMatchResult or in
\* client.NextGame.
InNetworkCall(k) == upl[k].pc \in {"pair", "next"}

\* C29: while playMatch is in its select, every event the reader offers (a
\* game, a best move, the retry signal, the end of the output) can be
\* taken at once, whatever the uploader is doing; taking it changes
\* nothing of the uploader and leaves the loop in its select or returns;
\* and the steps that complete an upload or a next-slot request are steps
\* of the uploader, which leave playMatch and the reader as they are.
C29_MainLoopNeverWaitsOnNetwork ==
    [][ \A k \in Sessions :
          /\ (Alive /\ orch[k].kind = "match" /\ orch[k].pc = "select") =>
               /\ rd[k].pc = "sendGi" => ENABLED playMatchGame(k)
               /\ rd[k].pc = "sendBest" => ENABLED playMatchBestMove(k)
               /\ rd[k].pc = "sendRetry" => ENABLED playMatchRetry(k)
               /\ rd[k].pc = "closed" => ENABLED playMatchClosed(k)
               /\ (orch'[k] # orch[k] /\ main'.pc # "exited") =>
                    /\ upl'[k] = upl[k]
                    /\ orch'[k].pc \in {"select", "wait", "returned"}
          /\ (InNetworkCall(k) /\ upl'[k] # upl[k] /\ main'.pc # "exited") =>
               /\ orch'[k] = orch[k]
               /\ rd'[k] = rd[k]
      ]_vars

\* playMatch has taken two games and is back in its select while the
\* uploader is in a server request and a game waits in its forwarder.
C29_Witness ==
    \E k \in Sessions :
        /\ Alive /\ orch[k].kind = "match" /\ orch[k].pc = "select"
        /\ orch[k].games = 2
        /\ upl[k].pc = "next"
        /\ \E i \in 1..Len(fwd[k]) : fwd[k][i].pc = "offer"

\* C30: an engine is launched with --parallelism exactly when its task is
\* a training task and the operator set a positive --parallelism.
C30_ParallelismOnlyForConfiguredTraining ==
    \A k \in Sessions :
        (eng[k].st # "none" /\ orch[k].kind \in {"train", "match"}) =>
            (eng[k].par # 0 <=> (orch[k].kind = "train" /\ parallel > 0))

\* C30 (amended): an engine, of a training task or of a match, is launched
\* with the operator's --parallelism if that is positive, else with
\* --parallelism=32 if launch itself chose the cudnn-fp16 backend, else
\* without the flag; and never with the flag in a mode other than selfplay.
C30_ParallelismInSelfplayOrFp16Default ==
    /\ \A k \in Sessions :
         (eng[k].st # "none" /\ orch[k].kind \in {"train", "match"}) =>
             eng[k].par = IF parallel > 0 THEN parallel
                          ELSE IF eng[k].arg = "backend=cudnn-fp16"
                          THEN Fp16Parallelism
                          ELSE 0
    /\ \A par \in Parallels, bo \in BackOpts, fp16 \in BOOLEAN :
         ParallelismArg("uci", par, bo, fp16) = 0

\* The engine of a match runs with --parallelism=32 though the operator
\* left --parallelism at its default.
C30_Witness ==
    \E k \in Sessions :
        /\ eng[k].st = "running" /\ orch[k].kind = "match"
        /\ parallel = DefaultParallelism
        /\ eng[k].par = Fp16Parallelism

(***************************************************************************)
(*          playMatch over UCI (the client with two engines)               *)
(***************************************************************************)

\* The turns a game is followed for (the code stops at 450).
MaxTurns == 2

\* time.After(60 * time.Second), and the seconds a step of the clock takes.
BestMoveTimeout == 60
WaitStep == 20

\* The seconds the clock is followed for in one select.
MaxWait == 100

Outcomes == {"none", "whitewon", "blackwon", "draw"}

\* A select without the timeout case.
NoDeadline(start) == start + MaxWait + WaitStep

\* The time at which the timer of a select begun at start fires.
Deadline(start) == start + BestMoveTimeout

\* The engine that is to move: p1 plays white and is the candidate unless
\* flip.
Mover(u) ==
    IF (u.turn % 2 = 0) = ~u.flip THEN "candidate" ELSE "baseline"

\* playMatch returns: the deferred funcs kill and wait for the candidate
\* and then the baseline; nextGame returns the error to main, which sleeps
\* 30 seconds, or nil, and main's loop goes on.
UciReturn(u, r) ==
    [u EXCEPT !.ret = r,
              !.st = [e \in Engines |-> "reaped"],
              !.waited = 0,
              !.pc = IF r = "ok" THEN "idle" ELSE "sleep30"]

\* nextGame gets a match and playMatch launches the two engines.
uciStart(flip) ==
    /\ uci.pc = "idle"
    /\ uci' = [NoMatch EXCEPT !.pc = "loop", !.flip = flip,
                              !.st = [e \in Engines |-> "running"]]
    /\ UNCHANGED <<cacheVars, taskVars, bur>>

\* The top of the for: the game is over (the result is returned), or the
\* position and "go nodes 800" are written to the engine to move.
uciLoop ==
    /\ uci.pc = "loop"
    /\ uci' = IF uci.turn >= MaxTurns \/ uci.outcome # "none"
              THEN UciReturn(uci, "ok")
              ELSE [uci EXCEPT !.pc = "select", !.waited = 0]
    /\ UNCHANGED <<cacheVars, taskVars, bur>>

\* case bestMove, ok := <-p.BestMove with ok: game.MoveStr fails (the
\* error is returned) or the move is played.
uciBestMove(legal, o) ==
    /\ uci.pc = "select"
    /\ uci.st[Mover(uci)] = "running"
    /\ ~uci.closed[Mover(uci)] /\ ~uci.nilch[Mover(uci)]
    /\ uci' = IF legal
              THEN [uci EXCEPT !.pc = "loop", !.turn = @ + 1,
                               !.outcome = o, !.waited = 0]
              ELSE UciReturn(uci, "movestr")
    /\ UNCHANGED <<cacheVars, taskVars, bur>>

\* case bestMove, ok := <-p.BestMove with !ok: p.BestMove = nil; break.
uciClosed ==
    /\ uci.pc = "select"
    /\ uci.closed[Mover(uci)] /\ ~uci.nilch[Mover(uci)]
    /\ uci' = [uci EXCEPT !.nilch[Mover(uci)] = TRUE, !.pc = "loop",
                          !.waited = 0]
    /\ UNCHANGED <<cacheVars, taskVars, bur>>

\* case <-time.After(60 * time.Second): return errors.New("timeout").
uciTimeout ==
    /\ uci.pc = "select"
    /\ uci.waited >= Deadline(0)
    /\ uci' = UciReturn(uci, "timeout")
    /\ UNCHANGED <<cacheVars, taskVars, bur>>

\* Time passes in the select, up to the moment its timer fires.
uciTick ==
    /\ uci.pc = "select"
    /\ uci.waited + WaitStep <= Deadline(0)
    /\ uci.waited + WaitStep <= MaxWait
    /\ uci' = [uci EXCEPT !.waited = @ + WaitStep]
    /\ UNCHANGED <<cacheVars, taskVars, bur>>

\* An engine exits by itself; its reader's scanner ends and the deferred
\* close(c.BestMove) runs.
uciEngineExit(e) ==
    /\ uci.pc \in {"loop", "select"}
    /\ uci.st[e] = "running"
    /\ uci' = [uci EXCEPT !.st[e] = "exited", !.closed[e] = TRUE]
    /\ UNCHANGED <<cacheVars, taskVars, bur>>

\* main: time.Sleep(30 * time.Second); continue.
uciWake ==
    /\ uci.pc = "sleep30"
    /\ uci' = [uci EXCEPT !.pc = "idle"]
    /\ UNCHANGED <<cacheVars, taskVars, bur>>

UciNext ==
    \/ \E flip \in BOOLEAN : uciStart(flip)
    \/ uciLoop
    \/ \E legal \in BOOLEAN, o \in Outcomes : uciBestMove(legal, o)
    \/ uciClosed
    \/ uciTimeout
    \/ uciTick
    \/ \E e \in Engines : uciEngineExit(e)
    \/ uciWake

(***************************************************************************)
(*                        Claims C31 to C40                                *)
(***************************************************************************)

\* C31: no select of the UCI playMatch waits longer than 60 seconds; a
\* select on a BestMove that was set to nil after its close is left by
\* the timeout only; and a playMatch that returns "timeout" has killed
\* and waited for both engines and leaves main in its 30 second sleep,
\* from which main goes on to a fresh nextGame.
C31_BestMoveWaitIsBounded ==
    [][ /\ uci'.pc = "select" => uci'.waited <= BestMoveTimeout
        /\ (uci.pc = "select" /\ uci.nilch[Mover(uci)]
              /\ uci'.pc # "select") => uci'.ret = "timeout"
        /\ (uci.pc = "select" /\ uci'.pc # "select"
              /\ uci'.ret = "timeout") =>
             /\ uci.waited = BestMoveTimeout
             /\ uci'.pc = "sleep30"
             /\ \A e \in Engines : uci'.st[e] = "reaped"
        /\ (uci.pc = "sleep30" /\ uci'.pc # "sleep30") => uci'.pc = "idle"
      ]_vars

\* An engine's BestMove was closed and set to nil, the next wait ran into
\* the timeout, and main sleeps with both engines reaped.
C31_Witness ==
    /\ uci.pc = "sleep30" /\ uci.ret = "timeout"
    /\ \E e \in Engines : uci.nilch[e]
    /\ \A e \in Engines : uci.st[e] = "reaped"

\* C32: a step of the poller of a task whose train has returned neither
\* assigns pendingNextGame nor starts a prefetch.
C32_PollerSilentAfterReturn ==
    [][ \A k \in Sessions :
          (orch[k].kind = "train" /\ orch[k].pc = "returned"
             /\ poll[k].pc \in {"sleep", "query", "prefetch"}
             /\ poll'[k] # poll[k] /\ main'.pc # "exited") =>
            /\ pendingNextGame' = pendingNextGame
            /\ poll'[k].pc # "prefetch"
      ]_vars

\* C33: when every upload goroutine of the client's first task has
\* finished, totalGames is the number of its uploadGame calls that
\* returned nil.
C33_CountsEverySuccess ==
    (main.cur = 1 /\ Alive /\ \A i \in 1..Len(wk[1]) : wk[1][i].pc = "done") =>
        totalGames = Cardinality({ i \in 1..Len(wk[1]) : wk[1][i].res = "ok" })

\* The games the uploader of session k holds in its buckets.
Held(u) == Len(u.flipped) + Len(u.normal)

\* C34: a step of the uploader that uploads a result (from "pair" with a
\* slot and a game in the slot's bucket) clears the slot and takes exactly
\* one game out of the buckets; a game leaves the buckets and the last
\* upload changes only in such a step; and a slot is taken only from
\* client.NextGame and only when the uploader holds none.
C34_OneUploadPerSlotAndGame ==
    [][ \A k \in Sessions :
          LET u == upl[k]
              v == upl'[k]
              bucket == IF u.curng.flip THEN u.flipped ELSE u.normal
              uploads == /\ u.pc = "pair" /\ u.curng # NoTask
                         /\ Len(bucket) > 0 /\ v # u
          IN (main'.pc # "exited" /\ u.pc \notin {"off", "closed"}) =>
               /\ uploads => /\ v.curng = NoTask
                             /\ Held(v) = Held(u) - 1
                             /\ v.pc = "next"
               /\ (Held(v) < Held(u) \/ v.last # u.last) => uploads
               /\ (v.curng # u.curng /\ v.curng # NoTask) =>
                    (u.curng = NoTask /\ u.pc = "next")
      ]_vars

\* After an upload the slot is cleared while another game is still held.
C34_Witness ==
    \E k \in Sessions :
        /\ upl[k].pc = "next" /\ upl[k].curng = NoTask
        /\ upl[k].last.player1 # ""
        /\ Held(upl[k]) > 0

\* C35: a failed query of the poller or of the match uploader adds one to
\* its error count and ends the goroutine (closing doneCh) exactly when
\* the count reaches 10, without saving a pending task; an answer that is
\* the current task sets the count to 0; and a train or playMatch that
\* took the doneCh case after such an end returns success, the match with
\* no pending task.
C35_TenFailuresInARowEndTheTask ==
    [][ \A k \in Sessions :
          main'.pc # "exited" =>
            /\ (poll[k].pc = "query" /\ poll'[k] # poll[k]) =>
                 \/ /\ poll'[k].errCount = poll[k].errCount + 1
                    /\ poll'[k].pc =
                         IF poll'[k].errCount < ErrLimit THEN "sleep" ELSE "closed"
                    /\ pendingNextGame' = pendingNextGame
                 \/ /\ poll'[k].pc = "sleep" /\ poll'[k].errCount = 0
                    /\ pendingNextGame' = pendingNextGame
                 \/ poll'[k].pc \in {"prefetch", "closed"}
                      /\ poll'[k].errCount = poll[k].errCount
                      /\ poll[k].errCount < ErrLimit
            /\ (upl[k].pc = "next" /\ upl'[k] # upl[k]) =>
                 \/ /\ upl'[k].errCount = upl[k].errCount + 1
                    /\ upl'[k].pc =
                         IF upl'[k].errCount < ErrLimit THEN "select" ELSE "closed"
                    /\ upl'[k].pending = NoTask
                 \/ /\ upl'[k].pc = "pair" /\ upl'[k].errCount = 0
                    /\ upl'[k].curng # NoTask
                 \/ /\ upl'[k].pc = "closed" /\ upl'[k].pending # NoTask
                    /\ upl'[k].errCount = upl[k].errCount
            /\ (orch[k].pc # "returned" /\ orch'[k].pc = "returned"
                  /\ orch[k].preempted
                  /\ (poll[k].errCount = ErrLimit \/ upl[k].errCount = ErrLimit)) =>
                 /\ orch'[k].ret = "ok"
                 /\ orch[k].kind = "match" => pendingNextGame' = NoTask
                 /\ orch[k].kind = "train" => pendingNextGame' = pendingNextGame
      ]_vars

\* A match has returned success after its uploader gave up on the tenth
\* failed query in a row.
C35_Witness ==
    \E k \in Sessions :
        /\ orch[k].kind = "match" /\ orch[k].pc = "returned"
        /\ orch[k].ret = "ok"
        /\ upl[k].errCount = ErrLimit /\ upl[k].pc = "closed"
        /\ pendingNextGame = NoTask

\* C36: once the reader of a session has reached the end of the engine's
\* output and closed its channels, the session's train or playMatch has
\* returned at some later moment, or the process has ended.
C36_ReturnsOnceOutputEnded ==
    \A k \in Sessions :
        (rd[k].pc = "closed" /\ orch[k].pc \in {"select", "wait", "wgwait"})
           ~> (orch[k].pc = "returned" \/ ~Alive)

\* A match has returned after the engine's output ended while its
\* uploader and a forwarder were still at work.
C36_Witness ==
    \E k \in Sessions :
        /\ orch[k].kind = "match" /\ orch[k].pc = "returned"
        /\ orch[k].ended /\ orch[k].left = 0
        /\ upl[k].pc = "closed"
        /\ Len(fwd[k]) > 0 /\ \A i \in 1..Len(fwd[k]) : fwd[k][i].pc = "done"

\* C37: the os.Remove of checkValidNetwork never takes away a file that
\* verifies, and a call of getNetwork that renamed a valid download into
\* place returns the path.
C37_DeletesOnlyWhatFailed ==
    [][ \A p \in Procs :
          LET path == NetName(gn[p].sha)
          IN /\ (gn[p].pc = "remove" /\ gn'[p].pc # "remove"
                   /\ dir[path] # NoFile) =>
                  ~Verified(dir[path].body, gn[p].sha)
             /\ (gn[p].pc = "rename" /\ gn'[p].pc # "rename"
                   /\ dir'[path] # NoFile
                   /\ Verified(dir'[path].body, gn[p].sha)) =>
                  gn'[p].pc \in {"stat", "open", "unlock"}
      ]_vars


\* C38: a call of getNetwork that took the lock of its identifier has
\* released it by the time it returns, whether it returns the file or an
\* error: a lock file names as its owner only a process that is between its
\* successful TryLock and its deferred Unlock for that identifier, so a
\* process outside getNetwork owns no lock file.
C38_NoLockAfterReturn ==
    \A s \in Shas, p \in Procs :
        (Present(LckName(s)) /\ dir[LckName(s)].body = p)
            => (HoldsLock(p) /\ gn[p].sha = s)

\* One call has returned an error after it held the lock, another has
\* returned the file it downloaded, and no lock file is left.
C38_Witness ==
    \E p, q \in Procs :
        /\ gn[p].pc = "idle" /\ gn[p].res = "err"
        /\ gn[q].pc = "idle" /\ gn[q].res = "ok" /\ gn[q].phase = 2
        /\ \A s \in Shas : ~Present(LckName(s))

\* C39: the file at a network's final path is at every moment absent or the
\* whole body of one download whose copy ended without error; the step that
\* ends a DownloadNetwork whose copy failed leaves the final path as it
\* was; and a temporary file of a process exists only while that process
\* is in DownloadNetwork between its io.Copy and its os.Remove.
C39_FinalPathIsAbsentOrComplete ==
    [][ \A p \in Procs :
          /\ \A s \in Shas :
                Present(NetName(s))' =>
                    dir'[NetName(s)].body \in ServerContents(s)
          /\ (gn[p].pc = "rename" /\ gn[p].copyErr /\ gn'[p].pc # "rename")
                => /\ dir'[NetName(gn[p].sha)] = dir[NetName(gn[p].sha)]
                   /\ gn'[p].ret = "err"
          /\ Present(TmpName(p))' => gn'[p].pc = "rename" ]_vars

\* A copy has failed while the final path holds a file, and another call
\* has returned the file it downloaded, its temporary file gone.
C39_Witness ==
    \E p, q \in Procs :
        /\ gn[p].pc = "rename" /\ gn[p].copyErr
        /\ Present(TmpName(p)) /\ dir[TmpName(p)].body = PartialContent
        /\ Present(NetName(gn[p].sha))
        /\ gn[q].pc = "idle" /\ gn[q].res = "ok" /\ gn[q].phase = 2
        /\ ~Present(TmpName(q))

\* The sends of the reader: on c.Retry, c.BestMove and c.gi.
ReaderSends == {"sendRetry", "sendBest", "sendGi"}

\* C40: in playMatch no channel is closed twice and none is sent on after
\* its close.  reverseDoneCh is open while the call is in its loop or in
\* c.Cmd.Wait and is closed by the very step that returns from the loop or
\* leaves c.Cmd.Wait, and by no other step; the uploader closes doneCh by
\* its return, from its select only once reverseDoneCh is closed, and does
\* nothing after it; a forwarder that ends once doneCh is closed hands no
\* game to the uploader, and its case on doneCh is ready; and the reader
\* sends nothing after it has closed c.gi and c.BestMove.
C40_ChannelsClosedOnce ==
    [][ \A k \in Sessions :
          (orch[k].kind = "match" /\ orch'[k].kind = "match") =>
            /\ IF orch[k].pc \in {"select", "wait"}
                  /\ orch'[k].pc \in {"wgwait", "returned"}
               THEN ~orch[k].reverseDone /\ orch'[k].reverseDone
               ELSE orch'[k].reverseDone = orch[k].reverseDone
            /\ upl[k].pc = "closed" => upl'[k].pc = "closed"
            /\ (upl[k].pc = "select" /\ upl'[k].pc = "closed")
                  => orch[k].reverseDone
            /\ \A i \in 1..Len(fwd[k]) :
                  (upl[k].pc = "closed" /\ fwd[k][i].pc = "offer") =>
                      /\ ENABLED forwarderDone(k, i)
                      /\ fwd'[k][i].pc = "done" =>
                            /\ upl'[k].flipped = upl[k].flipped
                            /\ upl'[k].normal = upl[k].normal
            /\ rd[k].pc = "closed" => rd'[k].pc \notin ReaderSends ]_vars

\* A playMatch returned "retry" from its loop: reverseDoneCh is closed, the
\* uploader has returned on it without a game, and the forwarder of the
\* game the loop had received has ended on the closed doneCh.
C40_Witness ==
    \E k \in Sessions :
        /\ Alive
        /\ orch[k].kind = "match" /\ orch[k].pc = "returned"
        /\ orch[k].ret = "retry" /\ orch[k].reverseDone
        /\ upl[k].pc = "closed"
        /\ upl[k].flipped = << >> /\ upl[k].normal = << >>
        /\ upl[k].last = NoUpload
        /\ Len(fwd[k]) > 0 /\ fwd[k][1].pc = "done"
(***************************************************************************)
(*                          The specifications                             *)
(***************************************************************************)

\* The client process before its first task, with the help output and the
\* flags of one setup.
ClientIdle ==
    /\ ClientInit
    /\ help = {"opencl"}
    /\ backopts = ""
    /\ parallel = DefaultParallelism
    /\ limits = ShortRun

\* The client with the fp16 backend on offer, with and without
\* --backend-opts.
Fp16Init ==
    /\ ClientInit
    /\ help = {"cudnn-fp16", "cudnn", "blas"}
    /\ parallel = DefaultParallelism
    /\ limits = ShortRun

\* The steps of the processes on the cache directory, next to a client that
\* stands still.
CacheNext ==
    \/ /\ \E p \in Procs, s \in Shas, k \in KeepTimes : GetNetworkCall(p, s, k)
       /\ UNCHANGED clientVars
    \/ /\ \E p \in Procs : RemoveAllExceptStep(p)
       /\ UNCHANGED clientVars
    \/ /\ \E p \in Procs : Stat(p)
       /\ UNCHANGED clientVars
    \/ /\ \E p \in Procs : OpenRead(p)
       /\ UNCHANGED clientVars
    \/ /\ \E p \in Procs : RemoveInvalid(p)
       /\ UNCHANGED clientVars
    \/ /\ \E p \in Procs : AcquireLock(p)
       /\ UNCHANGED clientVars
    \/ /\ \E p \in Procs : DownloadGet(p)
       /\ UNCHANGED clientVars
    \/ /\ \E p \in Procs, ok \in BOOLEAN :
             \E c \in ServerContents(gn[p].sha) : DownloadCopy(p, c, ok)
       /\ UNCHANGED clientVars
    \/ /\ \E p \in Procs : DownloadRename(p)
       /\ UNCHANGED clientVars
    \/ /\ \E p \in Procs : Unlock(p)
       /\ UNCHANGED clientVars
    \/ /\ Tick
       /\ UNCHANGED clientVars

\* An empty cache directory and a client before its first task.
IdleInit == CacheInit /\ ClientIdle

\* Several processes on one cache directory.
SpecCache == IdleInit /\ [][CacheNext]_vars

\* One client with the fp16 backend on offer: the reader on every line.
ReaderInit == Fp16Init /\ CacheInit
SpecReader == ReaderInit /\ [][ReaderNext]_vars

\* One client: the uploads of a training task.
SpecUpload == IdleInit /\ [][UploadNext]_vars

\* One client: the games of a match.
SpecMatch == IdleInit /\ [][MatchNext]_vars

\* The making of upload requests, for every uri, file and params.
SpecBuild == IdleInit /\ [][BuildNext]_vars

\* One client: training and match tasks in turn, for every help output and
\* both settings of --backend-opts.
AllInit ==
    /\ ClientInit /\ CacheInit
    /\ parallel = DefaultParallelism /\ limits = ShortRun
SpecClient == AllInit /\ [][ClientNext]_vars

\* One client: the launches of training and match tasks, for every help
\* output and every setting of --backend-opts and --parallelism, with the
\* lines that revoke the fp16 backend.
LaunchInit ==
    /\ ClientInit /\ CacheInit
    /\ parallel \in Parallels /\ limits = ShortRun
LaunchNext ==
    \/ MainSteps({TrainA, Match(FALSE)})
    \/ EngineSteps({PlainLine("fp16"), PlainLine("bestmove")})
    \/ TrainSignals
    \/ MatchSignals
SpecLaunch == LaunchInit /\ [][LaunchNext]_vars

\* One client whose server queries fail: a training task with its poller
\* and a match with its uploader, up to ErrLimit failed queries in a row.
ErrorsInit ==
    /\ ClientInit /\ CacheInit
    /\ help = {"opencl"} /\ backopts = ""
    /\ parallel = DefaultParallelism /\ limits = LongRun
ErrorsNext ==
    \/ \E t \in Offered({TrainA, Match(FALSE)}) : NextGameRun(t)
    \/ \E k \in Sessions : ReadLine(k, GameLine)
    \/ \E k \in Sessions : pollWake(k)
    \/ \E k \in Sessions, a \in {NoTask, TrainA} : pollAnswer(k, a)
    \/ \E k \in Sessions : trainDone(k)
    \/ \E k \in Sessions : trainWait(k)
    \/ \E k \in Sessions : trainFinish(k)
    \/ \E k \in Sessions : playMatchGame(k)
    \/ \E k \in Sessions : playMatchDone(k)
    \/ \E k \in Sessions : playMatchWait(k)
    \/ \E k \in Sessions : playMatchFinish(k)
    \/ \E k \in Sessions, i \in 1..LongLines : uploaderGame(k, i)
    \/ \E k \in Sessions, i \in 1..LongLines : forwarderDone(k, i)
    \/ \E k \in Sessions : uploaderPair(k)
    \/ \E k \in Sessions, a \in {NoTask, Match(FALSE)} : uploaderNext(k, a)
SpecErrors == ErrorsInit /\ [][ErrorsNext]_vars

\* One client: a training task and a match to their returns, with network
\* calls that return and goroutines that are scheduled again and again.
\* A select takes one of its ready cases at random, so a case that stays
\* ready is taken in the end (weak fairness of the step that takes it).
LiveNext ==
    \/ MainSteps({TrainA, Match(FALSE)})
    \/ EngineSteps({GameLine})
    \/ TrainGames
    \/ UploadSteps({"accepted", "bodyErr"})
    \/ MatchGames({NoTask, Match(FALSE), TrainA})

LiveFairness ==
    /\ WF_vars(\E k \in Sessions : trainClosed(k))
    /\ WF_vars(\E k \in Sessions : trainWait(k))
    /\ WF_vars(\E k \in Sessions : trainFinish(k))
    /\ WF_vars(\E k \in Sessions, i \in 1..MaxLines :
                  \E o \in {"accepted", "bodyErr"} : uploadGame(k, i, o))
    /\ WF_vars(\E k \in Sessions, i \in 1..MaxLines : uploadCounted(k, i))
    /\ WF_vars(\E k \in Sessions : playMatchClosed(k))
    /\ WF_vars(\E k \in Sessions : playMatchWait(k))
    /\ WF_vars(\E k \in Sessions : playMatchFinish(k))
    /\ WF_vars(\E k \in Sessions : uploaderExit(k))
    /\ WF_vars(\E k \in Sessions, i \in 1..MaxLines : forwarderDone(k, i))
    /\ WF_vars(\E k \in Sessions : uploaderPair(k))
    /\ WF_vars(\E k \in Sessions :
                  \E a \in {NoTask, Match(FALSE)} : uploaderNext(k, a))
SpecLive == IdleInit /\ [][LiveNext]_vars /\ LiveFairness

\* The client that plays matches over UCI.
SpecUci == IdleInit /\ [][UciNext]_vars

=============================================================================
